---- MODULE Spec2Model ----
(***************************************************************************)
(* CryptForge turn engine: World::resolve_turn and the functions it calls  *)
(* (src-tauri/src/engine/state.rs, combat.rs, effects.rs, ai.rs, fov.rs,   *)
(* pathfinding.rs, map.rs), on a small walled arena.                       *)
(*                                                                         *)
(* Option<T> is a sequence of length 0 (None) or 1 (Some).  A Position is  *)
(* the pair <<x, y>>.  Vec<T> is a sequence.  The message log is append    *)
(* only, so it is kept as its length and its last entry.                   *)
(***************************************************************************)
EXTENDS Integers, Sequences, FiniteSets, TLC

\* ---------------------------------------------------------------- bounds
MapW == 6
MapH == 4
MaxCalls == 3
SavedAfter == 3

\* ------------------------------------------------------ program constants
ENERGY_THRESHOLD == 100
SpeedMin == 10
SpeedMax == 200
HastedMod == 30
SlowedMod == 30
PoisonMin == 2
BurningMin == 3
RegenMin == 2
XpPerLevel == 150
PlayerFovRadius == 8
EnemyFovRadius == 6
UNREACHABLE == 2147483647

\* a value computed once and then used under a name: let x = v; F(x)
With(v, F(_)) == F(v)

None == <<>>
Some(v) == <<v>>
IsSome(o) == Len(o) = 1
Unwrap(o) == o[1]

Max(a, b) == IF a >= b THEN a ELSE b
Min(a, b) == IF a <= b THEN a ELSE b
Abs(a) == IF a < 0 THEN -a ELSE a

\* ------------------------------------------------------------------ map
Wall == "Wall"
Floor == "Floor"
DownStairs == "DownStairs"
UpStairs == "UpStairs"
DoorClosed == "DoorClosed"
DoorOpen == "DoorOpen"

tile_is_walkable(t) == t \in {Floor, DownStairs, UpStairs, DoorOpen}
tile_blocks_fov(t) == t \in {Wall, DoorClosed}

MapSize == MapW * MapH
idx(x, y) == y * MapW + x
in_bounds(x, y) == x >= 0 /\ y >= 0 /\ x < MapW /\ y < MapH
idx_to_pos(i) == <<i % MapW, i \div MapW>>
AllPositions == {idx_to_pos(i) : i \in 0..(MapSize - 1)}

get_tile(m, x, y) == IF ~in_bounds(x, y) THEN Wall ELSE m.tiles[idx(x, y)]
is_walkable(m, x, y) ==
    IF ~in_bounds(x, y) THEN FALSE
    ELSE tile_is_walkable(m.tiles[idx(x, y)]) /\ ~m.blocked[idx(x, y)]
is_opaque(m, x, y) ==
    IF ~in_bounds(x, y) THEN TRUE ELSE tile_blocks_fov(m.tiles[idx(x, y)])
refresh_blocked(m) ==
    [m EXCEPT !.blocked = [i \in 0..(MapSize - 1) |-> ~tile_is_walkable(m.tiles[i])]]
reveal(m, x, y) ==
    IF in_bounds(x, y) THEN [m EXCEPT !.revealed[idx(x, y)] = TRUE] ELSE m

\* The arena: a walled rectangle, as the generators leave it after
\* refresh_blocked.
ArenaMap ==
    refresh_blocked(
        [tiles |-> [i \in 0..(MapSize - 1) |->
                      LET p == idx_to_pos(i) IN
                      IF p[1] = 0 \/ p[2] = 0 \/ p[1] = MapW - 1 \/ p[2] = MapH - 1
                      THEN Wall ELSE Floor],
         revealed |-> [i \in 0..(MapSize - 1) |-> FALSE],
         blocked |-> [i \in 0..(MapSize - 1) |-> FALSE]])

\* The arena with the stairs of its floor, under the start position.
StairsMap == [ArenaMap EXCEPT !.tiles[idx(1, 1)] = DownStairs]

\* ------------------------------------------------------------- positions
DirNames == <<"N", "S", "E", "W", "NE", "NW", "SE", "SW">>
delta(dir) ==
    CASE dir = "N" -> <<0, -1>>
      [] dir = "S" -> <<0, 1>>
      [] dir = "E" -> <<1, 0>>
      [] dir = "W" -> <<-1, 0>>
      [] dir = "NE" -> <<1, -1>>
      [] dir = "NW" -> <<-1, -1>>
      [] dir = "SE" -> <<1, 1>>
      [] dir = "SW" -> <<-1, 1>>
apply_direction(p, dir) == <<p[1] + delta(dir)[1], p[2] + delta(dir)[2]>>
chebyshev_distance(a, b) == Max(Abs(a[1] - b[1]), Abs(a[2] - b[2]))

\* ------------------------------------------------------------------ fov
\* Slopes are the exact rationals <<n, d>> (d > 0) of the f64 quotients.
SlopeLT(a, b) == a[1] * b[2] < b[1] * a[2]
OCTANT_MUL == << <<1, 0, 0, 1>>, <<0, 1, 1, 0>>, <<0, -1, 1, 0>>, <<-1, 0, 0, 1>>,
                 <<-1, 0, 0, -1>>, <<0, -1, -1, 0>>, <<0, 1, -1, 0>>, <<1, 0, 0, -1>> >>

RECURSIVE cast_light(_, _, _, _, _, _, _, _)
RECURSIVE cast_row(_, _, _, _, _, _, _)
RECURSIVE cast_cell(_, _, _, _, _, _, _, _)

\* One iteration of the inner `while dx <= 0` loop, dx already incremented.
\* st = [blocked, start, new_start, visible]
cast_cell(m, origin, radius, j, dx, end, mul, st) ==
    IF dx > 0 THEN st
    ELSE
      LET dy == -j
          map_x == origin[1] + dx * mul[1] + dy * mul[2]
          map_y == origin[2] + dx * mul[3] + dy * mul[4]
          l_slope == <<1 - 2 * dx, 2 * j - 1>>
          r_slope == <<-(2 * dx) - 1, 2 * j + 1>>
      IN
      IF ~in_bounds(map_x, map_y) THEN cast_cell(m, origin, radius, j, dx + 1, end, mul, st)
      ELSE IF SlopeLT(st.start, r_slope) THEN cast_cell(m, origin, radius, j, dx + 1, end, mul, st)
      ELSE IF SlopeLT(l_slope, end) THEN st
      ELSE
        LET vis1 == IF dx * dx + dy * dy <= radius * radius
                    THEN st.visible \cup {<<map_x, map_y>>} ELSE st.visible
            st1 ==
              IF st.blocked THEN
                 IF is_opaque(m, map_x, map_y)
                 THEN [st EXCEPT !.visible = vis1, !.new_start = r_slope]
                 ELSE [st EXCEPT !.visible = vis1, !.blocked = FALSE, !.start = st.new_start]
              ELSE IF is_opaque(m, map_x, map_y) /\ j < radius THEN
                 [st EXCEPT !.blocked = TRUE,
                            !.visible = cast_light(m, origin, radius, j + 1, st.start, l_slope, mul, vis1),
                            !.new_start = r_slope]
              ELSE [st EXCEPT !.visible = vis1]
        IN cast_cell(m, origin, radius, j, dx + 1, end, mul, st1)

\* The `for j in row..=radius` loop.  Rows that lie wholly outside the map
\* only `continue`, so the loop stops at the map's extent.
cast_row(m, origin, radius, j, end, mul, st) ==
    IF j > radius \/ j > Max(MapW, MapH) THEN st.visible
    ELSE
      LET st1 == cast_cell(m, origin, radius, j, -j, end, mul, [st EXCEPT !.blocked = FALSE])
      IN IF st1.blocked THEN st1.visible
         ELSE cast_row(m, origin, radius, j + 1, end, mul, st1)

cast_light(m, origin, radius, row, start, end, mul, visible) ==
    IF SlopeLT(start, end) THEN visible
    ELSE cast_row(m, origin, radius, row, end, mul,
                  [blocked |-> FALSE, start |-> start, new_start |-> <<0, 1>>,
                   visible |-> visible])

RECURSIVE compute_fov_oct(_, _, _, _, _)
compute_fov_oct(m, origin, radius, octant, visible) ==
    IF octant > 8 THEN visible
    ELSE compute_fov_oct(m, origin, radius, octant + 1,
            cast_light(m, origin, radius, 1, <<1, 1>>, <<0, 1>>, OCTANT_MUL[octant], visible))

compute_fov(origin, radius, m) == compute_fov_oct(m, origin, radius, 1, {origin})

\* ------------------------------------------------------------- dijkstra
NeighborDeltas == << <<-1, 0>>, <<1, 0>>, <<0, -1>>, <<0, 1>>,
                     <<-1, -1>>, <<-1, 1>>, <<1, -1>>, <<1, 1>> >>

\* DijkstraMap::compute: breadth-first distances over walkable tiles.  The
\* queue-driven relaxation reaches its fixpoint in at most MapSize rounds.
NeighborSet == {NeighborDeltas[k] : k \in 1..8}
MinOf(S) == CHOOSE c \in S : \A c2 \in S : c <= c2

RECURSIVE dijkstra_relax(_, _, _)
dijkstra_relax(m, values, round) ==
    IF round = 0 THEN values
    ELSE
      LET next == [i \in 0..(MapSize - 1) |->
                     LET p == idx_to_pos(i)
                         cands == {values[idx(p[1] + d[1], p[2] + d[2])] + 1 :
                                     d \in {d2 \in NeighborSet :
                                              /\ in_bounds(p[1] + d2[1], p[2] + d2[2])
                                              /\ values[idx(p[1] + d2[1], p[2] + d2[2])] # UNREACHABLE}}
                     IN IF ~tile_is_walkable(m.tiles[i]) \/ cands = {} THEN values[i]
                        ELSE Min(values[i], MinOf(cands))]
      IN IF next = values THEN values ELSE dijkstra_relax(m, next, round - 1)

dijkstra_compute(m, source) ==
    dijkstra_relax(m, [i \in 0..(MapSize - 1) |->
                         IF i = idx(source[1], source[2]) THEN 0 ELSE UNREACHABLE], MapSize)

dijkstra_get(dm, x, y) ==
    IF x < 0 \/ y < 0 \/ x >= MapW \/ y >= MapH THEN UNREACHABLE ELSE dm[idx(x, y)]

RECURSIVE best_neighbor_from(_, _, _, _, _, _)
best_neighbor_from(dm, pos, m, k, best_pos, best_val) ==
    IF k > 8 THEN best_pos
    ELSE LET nx == pos[1] + NeighborDeltas[k][1]
             ny == pos[2] + NeighborDeltas[k][2]
         IN IF in_bounds(nx, ny) /\ tile_is_walkable(m.tiles[idx(nx, ny)])
               /\ dijkstra_get(dm, nx, ny) < best_val
            THEN best_neighbor_from(dm, pos, m, k + 1, Some(<<nx, ny>>), dijkstra_get(dm, nx, ny))
            ELSE best_neighbor_from(dm, pos, m, k + 1, best_pos, best_val)
best_neighbor(dm, pos, m) ==
    best_neighbor_from(dm, pos, m, 1, None, dijkstra_get(dm, pos[1], pos[2]))

RECURSIVE flee_neighbor_from(_, _, _, _, _, _)
flee_neighbor_from(dm, pos, m, k, best_pos, best_val) ==
    IF k > 8 THEN best_pos
    ELSE LET nx == pos[1] + NeighborDeltas[k][1]
             ny == pos[2] + NeighborDeltas[k][2]
         IN IF in_bounds(nx, ny) /\ tile_is_walkable(m.tiles[idx(nx, ny)])
               /\ dijkstra_get(dm, nx, ny) > best_val
               /\ dijkstra_get(dm, nx, ny) # UNREACHABLE
            THEN flee_neighbor_from(dm, pos, m, k + 1, Some(<<nx, ny>>), dijkstra_get(dm, nx, ny))
            ELSE flee_neighbor_from(dm, pos, m, k + 1, best_pos, best_val)
flee_neighbor(dm, pos, m) ==
    flee_neighbor_from(dm, pos, m, 1, None, dijkstra_get(dm, pos[1], pos[2]))

\* ------------------------------------------------------------- entities
PLAYER_ID == 0

\* An Entity with every optional component absent.
BlankEntity(id, name, pos) ==
    [id |-> id, name |-> name, position |-> pos, blocks_movement |-> FALSE,
     health |-> None, combat |-> None, ai |-> None, inventory |-> None,
     equipment |-> None, item |-> None, status_effects |-> <<>>, fov |-> None,
     door |-> None, trap |-> None, stair |-> None, shop |-> None,
     interactive |-> None]

Health_new(max) == [current |-> max, max |-> max]
is_dead(h) == h.current <= 0
FieldOfView_new(radius) == [radius |-> radius, visible_tiles |-> {}, dirty |-> TRUE]
EquipmentSlots_empty ==
    [main_hand |-> None, off_hand |-> None, head |-> None, body |-> None,
     ring |-> None, amulet |-> None]
EquipSlots == <<"main_hand", "off_hand", "head", "body", "ring", "amulet">>

\* placement::spawn_player.  crit_chance is kept in percent.
spawn_player(pos) ==
    [BlankEntity(PLAYER_ID, "Player", pos) EXCEPT
        !.blocks_movement = TRUE,
        !.health = Some(Health_new(50)),
        !.combat = Some([base_attack |-> 5, base_defense |-> 2, base_speed |-> 100,
                         crit_chance |-> 5]),
        !.inventory = Some([items |-> <<>>, max_size |-> 20]),
        !.equipment = Some(EquipmentSlots_empty),
        !.fov = Some(FieldOfView_new(PlayerFovRadius))]

\* enemies::all_enemies rows used on the arena.
EnemyTemplates ==
    [Rat |-> [hp |-> 8, attack |-> 2, defense |-> 0, speed |-> 120, crit_chance |-> 5,
              ai |-> "Melee"],
     Goblin |-> [hp |-> 15, attack |-> 4, defense |-> 1, speed |-> 100, crit_chance |-> 5,
                 ai |-> "Melee"],
     Mimic |-> [hp |-> 25, attack |-> 8, defense |-> 3, speed |-> 100, crit_chance |-> 5,
                ai |-> "Passive"]]

\* enemies::boss_templates rows of the bosses of floors 3 and 10.
BossTemplates ==
    ("Goblin King" :> [hp |-> 80, attack |-> 8, defense |-> 4, speed |-> 100,
                       crit_chance |-> 10, ai |-> "BossPhase1"])
    @@ ("The Lich" :> [hp |-> 120, attack |-> 10, defense |-> 5, speed |-> 100,
                       crit_chance |-> 15, ai |-> "BossPhase1"])

\* placement::create_enemy_from_template
create_enemy_from_template(id, name, pos) ==
    With(IF name \in DOMAIN BossTemplates THEN BossTemplates[name] ELSE EnemyTemplates[name],
         LAMBDA t :
           [BlankEntity(id, name, pos) EXCEPT
               !.blocks_movement = TRUE,
               !.health = Some(Health_new(t.hp)),
               !.combat = Some([base_attack |-> t.attack, base_defense |-> t.defense,
                                base_speed |-> t.speed, crit_chance |-> t.crit_chance]),
               !.ai = Some(t.ai),
               !.fov = Some(FieldOfView_new(EnemyFovRadius))])

\* placement::spawn_entities, the trap entity
create_trap(id, pos, trap_type, damage, duration) ==
    [BlankEntity(id, "Trap", pos) EXCEPT
        !.trap = Some([trap_type |-> trap_type, damage |-> damage, duration |-> duration,
                       revealed |-> FALSE, triggered |-> FALSE])]

\* placement::create_interactable
create_interactable(id, pos, itype) ==
    [BlankEntity(id, itype, pos) EXCEPT
        !.blocks_movement = (itype = "Barrel"),
        !.interactive = Some([interaction_type |-> itype,
                              uses_remaining |-> IF itype = "Lever" THEN None ELSE Some(1),
                              activated |-> FALSE])]

\* items::item_templates rows of the items of the kit: the type, the slot,
\* power, speed_mod, the effect and the charges
ItemTemplates ==
    ("Chain Mail" :> [item_type |-> "Armor", slot |-> Some("body"), power |-> 4,
                      speed_mod |-> -10, effect |-> None, charges |-> None])
    @@ ("Iron Shield" :> [item_type |-> "Shield", slot |-> Some("off_hand"), power |-> 3,
                          speed_mod |-> 0, effect |-> None, charges |-> None])
    @@ ("Potion of Speed" :>
          [item_type |-> "Potion", slot |-> None, power |-> 0, speed_mod |-> 0,
           effect |-> Some([kind |-> "ApplyStatus", effect |-> "Hasted", duration |-> 15]),
           charges |-> None])
    @@ ("Wand of Ice" :>
          [item_type |-> "Wand", slot |-> None, power |-> 0, speed_mod |-> 0,
           effect |-> Some([kind |-> "RangedAttack", damage |-> 8,
                            status |-> Some([effect |-> "Slowed", duration |-> 3])]),
           charges |-> Some(8)])
    @@ ("Wand of Fire" :>
          [item_type |-> "Wand", slot |-> None, power |-> 0, speed_mod |-> 0,
           effect |-> Some([kind |-> "RangedAttack", damage |-> 8,
                            status |-> Some([effect |-> "Burning", duration |-> 3])]),
           charges |-> Some(8)])

\* ItemType::is_consumable
is_consumable(item_type) == item_type \in {"Potion", "Scroll", "Food"}

\* placement::create_item
create_item(id, name, pos) ==
    [BlankEntity(id, name, pos) EXCEPT !.item = Some(ItemTemplates[name])]

\* the entity World::place_stairs makes for the DownStairs tile
create_stairs(id, pos) ==
    [BlankEntity(id, "Stairs Down", pos) EXCEPT !.stair = Some("Down")]

\* Vec<Entity> lookups: the first entity with the id.
RECURSIVE index_of(_, _, _)
index_of(es, id, i) ==
    IF i > Len(es) THEN 0
    ELSE IF es[i].id = id THEN i ELSE index_of(es, id, i + 1)
get_entity(w, id) ==
    LET i == index_of(w.entities, id, 1) IN IF i = 0 THEN None ELSE Some(w.entities[i])
has_entity(w, id) == index_of(w.entities, id, 1) # 0
\* get_entity_mut followed by an assignment of the whole entity
set_entity(w, id, e) ==
    LET i == index_of(w.entities, id, 1) IN
    IF i = 0 THEN w ELSE [w EXCEPT !.entities[i] = e]
entity_of(w, id) == w.entities[index_of(w.entities, id, 1)]

SeqFilter(sq, Keep(_)) == SelectSeq(sq, Keep)
has_status(e, t) == \E i \in 1..Len(e.status_effects) : e.status_effects[i].effect_type = t
count_status(e, t) ==
    Cardinality({i \in 1..Len(e.status_effects) : e.status_effects[i].effect_type = t})

\* --------------------------------------------------------------- combat
RECURSIVE find_item(_, _, _)
find_item(items, id, i) ==
    IF i > Len(items) THEN None
    ELSE IF items[i].id = id THEN Some(items[i]) ELSE find_item(items, id, i + 1)

equipped_item(entity, slot) ==
    IF ~IsSome(entity.equipment) \/ ~IsSome(entity.inventory) THEN None
    ELSE IF ~IsSome(Unwrap(entity.equipment)[slot]) THEN None
    ELSE find_item(Unwrap(entity.inventory).items, Unwrap(Unwrap(entity.equipment)[slot]), 1)

equipment_attack_bonus(entity) ==
    LET it == equipped_item(entity, "main_hand") IN
    IF IsSome(it) /\ IsSome(Unwrap(it).item) /\ Unwrap(Unwrap(it).item).item_type = "Weapon"
    THEN Unwrap(Unwrap(it).item).power ELSE 0

equipment_ring_bonus(entity) ==
    LET it == equipped_item(entity, "ring") IN
    IF IsSome(it) /\ Unwrap(it).name = "Ring of Strength" /\ IsSome(Unwrap(it).item)
    THEN Unwrap(Unwrap(it).item).power ELSE 0

slot_defense(entity, slot) ==
    LET it == equipped_item(entity, slot) IN
    IF IsSome(it) /\ IsSome(Unwrap(it).item)
       /\ Unwrap(Unwrap(it).item).item_type \in {"Armor", "Shield"}
    THEN Unwrap(Unwrap(it).item).power ELSE 0

equipment_defense_bonus(entity) ==
    slot_defense(entity, "head") + slot_defense(entity, "body") + slot_defense(entity, "off_hand")
    + (LET it == equipped_item(entity, "ring") IN
       IF IsSome(it) /\ Unwrap(it).name = "Ring of Protection" /\ IsSome(Unwrap(it).item)
       THEN Unwrap(Unwrap(it).item).power ELSE 0)

slot_speed(entity, slot) ==
    LET it == equipped_item(entity, slot) IN
    IF IsSome(it) /\ IsSome(Unwrap(it).item) THEN Unwrap(Unwrap(it).item).speed_mod ELSE 0

equipment_speed_bonus(entity) ==
    slot_speed(entity, "main_hand") + slot_speed(entity, "off_hand") + slot_speed(entity, "head")
    + slot_speed(entity, "body") + slot_speed(entity, "ring") + slot_speed(entity, "amulet")

status_attack_modifier(entity) ==
    3 * count_status(entity, "Strengthened") - 3 * count_status(entity, "Weakened")
status_defense_modifier(entity) == -(2 * count_status(entity, "Weakened"))
status_speed_modifier(entity) ==
    HastedMod * count_status(entity, "Hasted") - SlowedMod * count_status(entity, "Slowed")

effective_attack(entity) ==
    Max((IF IsSome(entity.combat) THEN Unwrap(entity.combat).base_attack ELSE 0)
        + equipment_attack_bonus(entity) + equipment_ring_bonus(entity)
        + status_attack_modifier(entity), 0)

effective_defense(entity) ==
    Max((IF IsSome(entity.combat) THEN Unwrap(entity.combat).base_defense ELSE 0)
        + equipment_defense_bonus(entity) + status_defense_modifier(entity), 0)

effective_speed(entity) ==
    Max(SpeedMin,
        Min(SpeedMax,
            (IF IsSome(entity.combat) THEN Unwrap(entity.combat).base_speed ELSE 100)
            + equipment_speed_bonus(entity) + status_speed_modifier(entity)))

\* ceil(base * 0.2)
variance_range(base_damage) == (base_damage + 4) \div 5

\* rng.gen_range(-range..=range): every value of the range.
VarianceDraws(base_damage) ==
    IF base_damage > 0 /\ variance_range(base_damage) > 0
    THEN (-variance_range(base_damage))..variance_range(base_damage)
    ELSE {0}
\* rng.gen::<f32>() < crit_chance
CritDraws(attacker) ==
    IF IsSome(attacker.combat) /\ Unwrap(attacker.combat).crit_chance > 0
    THEN {FALSE, TRUE} ELSE {FALSE}

\* combat::resolve_attack: the set of AttackResults the rng can produce.
resolve_attack(attacker, target) ==
    LET target_hp == IF IsSome(target.health) THEN Unwrap(target.health).current ELSE 0
    IN With(Max(effective_attack(attacker) - effective_defense(target), 0),
         LAMBDA base_damage :
           { LET d0 == Max(base_damage + variance, 1)
                 damage == IF is_crit THEN (d0 * 3) \div 2 ELSE d0
             IN [damage |-> damage, is_crit |-> is_crit, killed |-> damage >= target_hp]
             : variance \in VarianceDraws(base_damage), is_crit \in CritDraws(attacker) })

\* -------------------------------------------------------------- effects
is_boss(entity) == IsSome(entity.ai) /\ Unwrap(entity.ai) \in {"BossPhase1", "BossPhase2"}

RECURSIVE first_status(_, _, _)
first_status(effects, t, i) ==
    IF i > Len(effects) THEN 0
    ELSE IF effects[i].effect_type = t THEN i ELSE first_status(effects, t, i + 1)

\* an apply_status without the immunity of bosses
apply_status_unguarded(entity, effect_type, duration, magnitude) ==
    LET i == first_status(entity.status_effects, effect_type, 1) IN
    IF i # 0
    THEN [entity EXCEPT
            !.status_effects[i].duration = Max(@, duration),
            !.status_effects[i].magnitude = Max(@, magnitude)]
    ELSE [entity EXCEPT
            !.status_effects = Append(@, [effect_type |-> effect_type,
                                          duration |-> duration,
                                          magnitude |-> magnitude])]

\* effects::apply_status
apply_status(entity, effect_type, duration, magnitude) ==
    IF is_boss(entity) /\ effect_type \in {"Stunned", "Confused"} THEN entity
    ELSE LET i == first_status(entity.status_effects, effect_type, 1) IN
         IF i # 0
         THEN [entity EXCEPT
                 !.status_effects[i].duration = Max(@, duration),
                 !.status_effects[i].magnitude = Max(@, magnitude)]
         ELSE [entity EXCEPT
                 !.status_effects = Append(@, [effect_type |-> effect_type,
                                               duration |-> duration,
                                               magnitude |-> magnitude])]

is_stunned(entity) == has_status(entity, "Stunned")

\* ai::activate_passive
activate_passive(entity) ==
    IF entity.ai = Some("Passive") THEN [entity EXCEPT !.ai = Some("Melee")] ELSE entity

\* ai::check_boss_phase: hp_pct < 0.5 is current * 2 < max for max > 0.
boss_phase_flips(entity) ==
    /\ entity.ai = Some("BossPhase1")
    /\ IsSome(entity.health)
    /\ Unwrap(entity.health).current * 2 < Unwrap(entity.health).max
\* a phase that follows the hit points both ways
check_boss_phase_by_health(entity) ==
    IF is_boss(entity) /\ IsSome(entity.health)
    THEN [entity EXCEPT !.ai = Some(IF Unwrap(entity.health).current * 2
                                          < Unwrap(entity.health).max
                                       THEN "BossPhase2" ELSE "BossPhase1")]
    ELSE entity
check_boss_phase(entity) ==
    IF boss_phase_flips(entity) THEN [entity EXCEPT !.ai = Some("BossPhase2")] ELSE entity

\* ---------------------------------------------------------------- world
\* A step of the turn pipeline carries the World and the events collected
\* so far: st = [w |-> World, ev |-> Vec<GameEvent>].  Functions that draw
\* from the rng return the set of the results the draws can produce.
Bind(S, F(_)) == UNION {F(x) : x \in S}

Ev(type, entity_id, target_id, amount, flag) ==
    [type |-> type, entity_id |-> entity_id, target_id |-> target_id,
     amount |-> amount, flag |-> flag]
NoId == -1
emit(st, e) == [st EXCEPT !.ev = Append(@, e)]

\* World::push_message.  The log is kept as its length and the leading words
\* of its last text; the formatted names and numbers of a text are left out.
push_message(w, text) ==
    [w EXCEPT !.messages = [len |-> @.len + 1, last |-> text]]
say(st, text) == [st EXCEPT !.w = push_message(@, text)]

player_of(w) == entity_of(w, PLAYER_ID)

\* World::remove_entity
remove_entity(w, id) ==
    LET i == index_of(w.entities, id, 1) IN
    IF i = 0 THEN w
    ELSE [w EXCEPT
            !.energy = [k \in (DOMAIN @) \ {id} |-> @[k]],
            !.entities = [k \in 1..(Len(@) - 1) |-> IF k < i THEN @[k] ELSE @[k + 1]]]

\* World::move_entity
move_entity(w, id, pos) ==
    IF ~has_entity(w, id) THEN w
    ELSE LET e == entity_of(w, id) IN
         set_entity(w, id,
            [e EXCEPT !.position = pos,
                      !.fov = IF IsSome(@) THEN Some([Unwrap(@) EXCEPT !.dirty = TRUE]) ELSE @])

\* World::can_move_to
can_move_to(w, pos) ==
    IF ~in_bounds(pos[1], pos[2]) THEN FALSE
    ELSE IF ~is_walkable(w.map, pos[1], pos[2])
         THEN get_tile(w.map, pos[1], pos[2]) = DoorClosed
         ELSE ~\E i \in 1..Len(w.entities) :
                 /\ w.entities[i].position = pos
                 /\ w.entities[i].blocks_movement
                 /\ w.entities[i].id # PLAYER_ID

\* an is_blocked that looks at the tile and not at the entities on it
is_blocked_by_tile_only(w, pos, self_id) ==
    ~in_bounds(pos[1], pos[2]) \/ ~is_walkable(w.map, pos[1], pos[2])

\* World::is_blocked
is_blocked(w, pos, self_id) ==
    IF ~in_bounds(pos[1], pos[2]) \/ ~is_walkable(w.map, pos[1], pos[2]) THEN TRUE
    ELSE \E i \in 1..Len(w.entities) :
            /\ w.entities[i].position = pos
            /\ w.entities[i].blocks_movement
            /\ w.entities[i].id # self_id

\* entities.iter().find(pred).map(|e| e.id)
first_id(found) == IF Len(found) = 0 THEN None ELSE Some(found[1].id)

hostile_entity_at(w, pos) ==
    LET P(e) == e.position = pos /\ IsSome(e.ai) /\ IsSome(e.health)
    IN first_id(SelectSeq(w.entities, P))
shop_entity_at(w, pos) ==
    LET P(e) == e.position = pos /\ IsSome(e.shop) IN first_id(SelectSeq(w.entities, P))
door_at(w, pos) ==
    LET P(e) == e.position = pos /\ IsSome(e.door) /\ ~Unwrap(e.door).open
    IN first_id(SelectSeq(w.entities, P))

\* World::is_player_dead
is_player_dead(w) ==
    IF ~has_entity(w, PLAYER_ID) THEN TRUE
    ELSE IF ~IsSome(player_of(w).health) THEN TRUE
    ELSE is_dead(Unwrap(player_of(w).health))

\* health.current -= amount on the first entity with the id
damage_entity(w, id, amount) ==
    IF ~has_entity(w, id) THEN w
    ELSE LET e == entity_of(w, id) IN
         IF ~IsSome(e.health) THEN w
         ELSE set_entity(w, id,
                [e EXCEPT !.health = Some([Unwrap(@) EXCEPT !.current = @ - amount])])

\* rng.gen_range(1..=5)
GoldDraws == 1..5

\* World::handle_entity_death
handle_entity_death(st, entity_id) ==
    LET entity == entity_of(st.w, entity_id)
        boss == is_boss(entity)
    IN
    IF ~IsSome(entity.ai) THEN {[st EXCEPT !.w = remove_entity(@, entity_id)]}
    ELSE
      { LET xp == IF IsSome(entity.health) THEN Unwrap(entity.health).max ELSE 0
            gold_drop == IF boss THEN (roll + st.w.floor) * 5 ELSE roll + st.w.floor
            w1 == [st.w EXCEPT !.player_xp = @ + xp,
                               !.enemies_killed = @ + 1,
                               !.gold = @ + gold_drop]
            st1 == [w |-> w1, ev |-> Append(st.ev, Ev("GoldGained", NoId, NoId, gold_drop, FALSE))]
            st2 == IF boss
                   THEN LET b1 == say(emit([st1 EXCEPT !.w.bosses_killed = @ + 1],
                                           Ev("BossDefeated", entity_id, NoId, st1.w.floor, FALSE)),
                                      "has been defeated")
                        IN IF b1.w.floor = 10
                           THEN say(emit([b1 EXCEPT !.w.victory = TRUE, !.w.game_over = TRUE],
                                         Ev("Victory", NoId, NoId, 0, FALSE)),
                                    "Victory")
                           ELSE b1
                   ELSE say(st1, "is defeated")
            xp_to_next == st2.w.player_level * XpPerLevel
            st3 == IF st2.w.player_xp >= xp_to_next
                   THEN say(emit([st2 EXCEPT !.w.player_xp = @ - xp_to_next,
                                             !.w.player_level = @ + 1,
                                             !.w.pending_level_up = TRUE],
                                 Ev("LevelUp", NoId, NoId, st2.w.player_level + 1, FALSE)),
                            "Level up")
                   ELSE st2
        IN [st3 EXCEPT !.w = remove_entity(@, entity_id)]
        : roll \in GoldDraws }

\* World::perform_attack
perform_attack(st, attacker_id, target_id) ==
    LET attacker == entity_of(st.w, attacker_id)
        target == entity_of(st.w, target_id)
    IN Bind(resolve_attack(attacker, target),
         LAMBDA result :
           LET w1 == [damage_entity(st.w, target_id, result.damage) EXCEPT
                        !.last_damage_source = IF target_id = PLAYER_ID
                                               THEN Some("Slain by") ELSE @]
               w3 == push_message(w1, IF result.is_crit THEN "critically hits" ELSE "hits")
           IN With([w |-> w3,
                    ev |-> Append(st.ev, Ev("Attacked", attacker_id, target_id,
                                            result.damage, result.killed))],
                LAMBDA st1 :
                  IF result.killed THEN handle_entity_death(st1, target_id)
                  ELSE IF ~has_entity(st1.w, target_id) THEN {st1}
                  ELSE LET t1 == activate_passive(entity_of(st1.w, target_id))
                           st2 == [st1 EXCEPT
                                     !.w = set_entity(@, target_id, check_boss_phase(t1))]
                       IN {IF boss_phase_flips(t1) THEN say(st2, "enters a frenzied state")
                           ELSE st2}))

\* ------------------------------------------------------- player action
StatusEffect(effect_type, duration, magnitude) ==
    [effect_type |-> effect_type, duration |-> duration, magnitude |-> magnitude]

\* entity.status_effects.push(effect): no look-up of an effect of the type
push_status(w, id, effect) ==
    IF ~has_entity(w, id) THEN w
    ELSE set_entity(w, id, [entity_of(w, id) EXCEPT !.status_effects = Append(@, effect)])

\* the floor tiles a teleport trap can pick, in the order of the scan
TeleportTargets(w, entity_id) ==
    {p \in AllPositions : get_tile(w.map, p[1], p[2]) = Floor /\ ~is_blocked(w, p, entity_id)}

\* a look-up that finds a trap whether it has triggered or not
trap_at_rearmed(w, pos) ==
    LET P(e) == e.position = pos /\ IsSome(e.trap)
    IN first_id(SelectSeq(w.entities, P))

\* the look-up of World::check_traps: the first trap at pos not yet triggered
trap_at(w, pos) ==
    LET P(e) == e.position = pos /\ IsSome(e.trap) /\ ~Unwrap(e.trap).triggered
    IN first_id(SelectSeq(w.entities, P))

\* World::check_traps
check_traps(st, entity_id, pos) ==
    LET found == trap_at(st.w, pos)
    IN
    IF ~IsSome(found) THEN {st}
    ELSE
      LET trap_id == Unwrap(found)
          trap == entity_of(st.w, trap_id)
          trap_props == Unwrap(trap.trap)
          w1 == set_entity(st.w, trap_id,
                   [trap EXCEPT !.trap = Some([trap_props EXCEPT !.triggered = TRUE,
                                                                 !.revealed = TRUE])])
          src(w, text) == IF entity_id = PLAYER_ID
                          THEN [w EXCEPT !.last_damage_source = Some(text)] ELSE w
      IN
      CASE trap_props.trap_type = "Spike" ->
             {[w |-> push_message(damage_entity(src(w1, "Killed by a spike trap"),
                                                entity_id, trap_props.damage),
                                  "A spike trap springs"),
               ev |-> Append(st.ev, Ev("TrapTriggered", NoId, NoId, trap_props.damage, FALSE))]}
        [] trap_props.trap_type = "Poison" ->
             {[w |-> push_message(
                        push_status(src(w1, "Killed by a poison trap"), entity_id,
                                    StatusEffect("Poison", trap_props.duration, trap_props.damage)),
                        "A poison trap activates"),
               ev |-> st.ev \o << Ev("TrapTriggered", NoId, NoId, 0, FALSE),
                                  Ev("StatusApplied", entity_id, NoId, trap_props.duration, FALSE) >>]}
        [] trap_props.trap_type = "Teleport" ->
             LET done(s1) == say(emit(s1, Ev("TrapTriggered", NoId, NoId, 0, FALSE)),
                                 "A teleport trap whisks you away")
             IN IF TeleportTargets(w1, entity_id) = {} THEN {done([st EXCEPT !.w = w1])}
                ELSE {done([w |-> move_entity(w1, entity_id, new_pos),
                            ev |-> Append(st.ev, Ev("Moved", entity_id, NoId, 0, FALSE))])
                        : new_pos \in TeleportTargets(w1, entity_id)}
        [] trap_props.trap_type = "Alarm" ->
             {[w |-> push_message(w1, "An alarm sounds"),
               ev |-> Append(st.ev, Ev("TrapTriggered", NoId, NoId, 0, FALSE))]}

\* World::player_has_item, World::remove_player_item
RECURSIVE item_named(_, _, _)
item_named(items, name, i) ==
    IF i > Len(items) THEN 0
    ELSE IF items[i].name = name THEN i ELSE item_named(items, name, i + 1)
player_has_item(w, name) ==
    /\ has_entity(w, PLAYER_ID)
    /\ IsSome(player_of(w).inventory)
    /\ item_named(Unwrap(player_of(w).inventory).items, name, 1) # 0
remove_player_item(w, name) ==
    IF ~player_has_item(w, name) THEN w
    ELSE LET p == player_of(w)
             inv == Unwrap(p.inventory)
             k == item_named(inv.items, name, 1)
         IN set_entity(w, PLAYER_ID,
              [p EXCEPT !.inventory =
                 Some([inv EXCEPT !.items = [j \in 1..(Len(@) - 1) |->
                                               IF j < k THEN @[j] ELSE @[j + 1]]])])

\* Map::set_tile writes the tile and leaves the blocked cache alone
set_tile(m, x, y, t) == IF in_bounds(x, y) THEN [m EXCEPT !.tiles[idx(x, y)] = t] ELSE m

\* World::try_open_door
try_open_door(st, door_id) ==
    LET door == entity_of(st.w, door_id)
        door_state == Unwrap(door.door)
        pos == door.position
        key_name == IF IsSome(door_state.key_id) THEN Unwrap(door_state.key_id) ELSE "Boss Key"
        opened(w, unlock) ==
            [set_entity(w, door_id,
                [door EXCEPT !.door = Some([door_state EXCEPT
                                              !.open = TRUE,
                                              !.locked = IF unlock THEN FALSE ELSE @])])
             EXCEPT !.map = set_tile(@, pos[1], pos[2], DoorOpen)]
    IN
    IF door_state.locked
    THEN IF player_has_item(st.w, key_name)
         THEN say(emit([st EXCEPT !.w = opened(remove_player_item(@, key_name), TRUE)],
                       Ev("DoorOpened", NoId, NoId, 0, FALSE)),
                  "You unlock and open the door")
         ELSE say(st, "The door is locked")
    ELSE say(emit([st EXCEPT !.w = opened(@, FALSE)], Ev("DoorOpened", NoId, NoId, 0, FALSE)),
             "You open the door")

\* rng.gen::<f32>() of the fountain, by the band the roll falls in, and
\* rng.gen_range(0..3) of the stat it raises
FountainRolls == {"heal", "purify", "stat0", "stat1", "stat2", "poison"}
FountainHeal == 20

\* World::try_interact: the search for the interactive entity
RECURSIVE interactive_at(_, _, _)
interactive_at(w, positions, k) ==
    IF k > Len(positions) THEN None
    ELSE LET P(e) == e.position = positions[k] /\ IsSome(e.interactive)
             f == first_id(SelectSeq(w.entities, P))
         IN IF IsSome(f) THEN f ELSE interactive_at(w, positions, k + 1)

\* World::try_interact, InteractionType::Fountain
use_fountain(st, entity_id) ==
    LET e == entity_of(st.w, entity_id)
        w1 == set_entity(st.w, entity_id,
                 [e EXCEPT !.interactive = Some([Unwrap(@) EXCEPT !.uses_remaining = Some(0)])])
        p == entity_of(w1, PLAYER_ID)
        used(s1) == emit(s1, Ev("FountainUsed", NoId, NoId, 0, FALSE))
        stat(field, inc, text) ==
            IF has_entity(w1, PLAYER_ID) /\ IsSome(p.combat)
            THEN push_message(set_entity(w1, PLAYER_ID,
                    [p EXCEPT !.combat = Some([Unwrap(@) EXCEPT ![field] = @ + inc])]), text)
            ELSE w1
    IN
    { CASE roll = "heal" ->
             used([w |-> push_message(
                           IF has_entity(w1, PLAYER_ID) /\ IsSome(p.health)
                           THEN set_entity(w1, PLAYER_ID,
                                  [p EXCEPT !.health = Some([Unwrap(@) EXCEPT
                                       !.current = Min(@ + FountainHeal, Unwrap(p.health).max)])])
                           ELSE w1,
                           "The fountain's water heals your wounds"),
                   ev |-> Append(st.ev, Ev("Healed", PLAYER_ID, NoId, FountainHeal, FALSE))])
        [] roll = "purify" ->
             used([w |-> push_message(
                           IF has_entity(w1, PLAYER_ID)
                           THEN set_entity(w1, PLAYER_ID, [p EXCEPT !.status_effects = <<>>])
                           ELSE w1,
                           "The fountain's water purifies your body"),
                   ev |-> st.ev])
        [] roll = "stat0" ->
             used([w |-> stat("base_attack", 1, "The fountain's water empowers you"), ev |-> st.ev])
        [] roll = "stat1" ->
             used([w |-> stat("base_defense", 1, "The fountain's water toughens your skin"),
                   ev |-> st.ev])
        [] roll = "stat2" ->
             used([w |-> stat("base_speed", 10, "The fountain's water quickens your step"),
                   ev |-> st.ev])
        [] roll = "poison" ->
             used([w |-> push_message(push_status(w1, PLAYER_ID, StatusEffect("Poison", 5, 2)),
                                      "The fountain's water burns"),
                   ev |-> Append(st.ev, Ev("StatusApplied", PLAYER_ID, NoId, 5, FALSE))])
      : roll \in FountainRolls }

\* try_interact, were it to skip the check of the uses left
try_interact_ignoring_uses(st) ==
    LET player_pos == player_of(st.w).position
        check_positions == <<player_pos>> \o
                           [k \in 1..8 |-> apply_direction(player_pos, DirNames[k])]
        found == interactive_at(st.w, check_positions, 1)
    IN
    IF ~IsSome(found) THEN {say(st, "Nothing to interact with")}
    ELSE use_fountain(st, Unwrap(found))

\* World::try_interact.  The arena holds fountains; the other interaction
\* types have no entity on it.
try_interact(st) ==
    LET player_pos == player_of(st.w).position
        check_positions == <<player_pos>> \o
                           [k \in 1..8 |-> apply_direction(player_pos, DirNames[k])]
        found == interactive_at(st.w, check_positions, 1)
    IN
    IF ~IsSome(found) THEN {say(st, "Nothing to interact with")}
    ELSE LET inter == Unwrap(entity_of(st.w, Unwrap(found)).interactive) IN
         IF inter.uses_remaining = Some(0) THEN {say(st, "It's been used up")}
         ELSE CASE inter.interaction_type = "Fountain" -> use_fountain(st, Unwrap(found))

\* World::apply_level_up: the stat of the choice and its message
LevelUpChoices == {"MaxHp", "Attack", "Defense", "Speed"}
level_up_stat(w1, choice) ==
      LET p == entity_of(w1, PLAYER_ID)
          raise(field, inc) ==
              IF has_entity(w1, PLAYER_ID) /\ IsSome(p.combat)
              THEN set_entity(w1, PLAYER_ID,
                      [p EXCEPT !.combat = Some([Unwrap(@) EXCEPT ![field] = @ + inc])])
              ELSE w1
      IN
      CASE choice = "MaxHp" ->
             push_message(
               IF has_entity(w1, PLAYER_ID) /\ IsSome(p.health)
               THEN set_entity(w1, PLAYER_ID,
                      [p EXCEPT !.health = Some([current |-> Unwrap(@).current + 10,
                                                 max |-> Unwrap(@).max + 10])])
               ELSE w1, "+10 Max HP!")
        [] choice = "Attack" -> push_message(raise("base_attack", 2), "+2 Attack!")
        [] choice = "Defense" -> push_message(raise("base_defense", 2), "+2 Defense!")
        [] choice = "Speed" -> push_message(raise("base_speed", 15), "+15 Speed!")

\* a level-up that leaves the choice pending
apply_level_up_keeping_flag(w, choice) ==
    IF ~w.pending_level_up THEN w ELSE level_up_stat(w, choice)

\* World::apply_level_up
apply_level_up(w, choice) ==
    IF ~w.pending_level_up THEN w
    ELSE level_up_stat([w EXCEPT !.pending_level_up = FALSE], choice)

\* ------------------------------------------------------------------- ai
\* ai::is_blocked_by_entity
is_blocked_by_entity(pos, entities, self_id) ==
    \E i \in 1..Len(entities) :
        entities[i].position = pos /\ entities[i].blocks_movement /\ entities[i].id # self_id

\* ai::toward_position, ai::flee_position
toward_position(pos, dijkstra, m, entities, self_id) ==
    IF ~IsSome(dijkstra) THEN None
    ELSE LET next == best_neighbor(Unwrap(dijkstra), pos, m) IN
         IF IsSome(next) /\ ~is_blocked_by_entity(Unwrap(next), entities, self_id)
         THEN next ELSE None
flee_position(pos, dijkstra, m, entities, self_id) ==
    IF ~IsSome(dijkstra) THEN None
    ELSE LET next == flee_neighbor(Unwrap(dijkstra), pos, m) IN
         IF IsSome(next) /\ ~is_blocked_by_entity(Unwrap(next), entities, self_id)
         THEN next ELSE None

\* ai::decide_melee: hp_pct < 0.25 is current * 4 < max for max > 0.
decide_melee(entity, distance, dijkstra, m, entities) ==
    LET low == IsSome(entity.health)
               /\ Unwrap(entity.health).current * 4 < Unwrap(entity.health).max
    IN IF low /\ IsSome(flee_position(entity.position, dijkstra, m, entities, entity.id))
       THEN "MoveAway"
       ELSE IF distance <= 1 THEN "MeleeAttack"
       ELSE IF IsSome(toward_position(entity.position, dijkstra, m, entities, entity.id))
       THEN "MoveToward"
       ELSE "Wait"

\* ai::decide_flee
decide_flee(entity, dijkstra, m, entities) ==
    IF IsSome(flee_position(entity.position, dijkstra, m, entities, entity.id))
    THEN "MoveAway" ELSE "Wait"

\* pathfinding::has_line_of_sight: Bresenham's line from `from` to `to`,
\* stopped by an opaque tile other than the origin
RECURSIVE los_from(_, _, _, _, _, _)
los_from(m, from, to, x, y, err) ==
    LET dx == Abs(to[1] - from[1])
        dy == -Abs(to[2] - from[2])
        sx == IF from[1] < to[1] THEN 1 ELSE -1
        sy == IF from[2] < to[2] THEN 1 ELSE -1
        e2 == 2 * err
        err1 == IF e2 >= dy THEN err + dy ELSE err
        x1 == IF e2 >= dy THEN x + sx ELSE x
        err2 == IF e2 <= dx THEN err1 + dx ELSE err1
        y1 == IF e2 <= dx THEN y + sy ELSE y
    IN IF x = to[1] /\ y = to[2] THEN TRUE
       ELSE IF (x # from[1] \/ y # from[2]) /\ is_opaque(m, x, y) THEN FALSE
       ELSE los_from(m, from, to, x1, y1, err2)
has_line_of_sight(m, from, to) ==
    los_from(m, from, to, from[1], from[2],
             Abs(to[1] - from[1]) - Abs(to[2] - from[2]))

\* ai::decide_boss with decide_boss_goblin_king, decide_boss_troll_warlord and
\* decide_boss_lich
decide_boss(entity, player, distance, dijkstra, m, entities) ==
    LET is_phase2 == entity.ai = Some("BossPhase2")
        close == IF IsSome(toward_position(entity.position, dijkstra, m, entities, entity.id))
                 THEN "MoveToward" ELSE "Wait"
        los == has_line_of_sight(m, entity.position, player.position)
    IN CASE entity.name = "Troll Warlord" ->
              IF distance <= 1 THEN "MeleeAttack"
              ELSE IF distance >= 2 /\ distance <= 4 THEN "BossCharge"
              ELSE close
         [] entity.name = "The Lich" ->
              IF distance <= 1 THEN "BossTeleport"
              ELSE IF is_phase2 /\ distance <= 6 /\ distance >= 2 /\ los THEN "BossFrostBolt"
              ELSE IF distance <= 6 /\ distance >= 2 /\ los THEN "RangedAttack"
              ELSE close
         [] OTHER -> IF distance <= 1 THEN "MeleeAttack" ELSE close

\* ai::decide_action, for the behaviours of the arena's enemies
decide_action(entity, player, dijkstra, m, entities) ==
    LET can_see_player == IsSome(entity.fov)
                          /\ player.position \in Unwrap(entity.fov).visible_tiles
        distance == chebyshev_distance(entity.position, player.position)
    IN IF has_status(entity, "Confused") THEN "MoveRandom"
       ELSE IF ~can_see_player THEN "Wait"
       ELSE CASE entity.ai = Some("Melee") -> decide_melee(entity, distance, dijkstra, m, entities)
              [] entity.ai = Some("Passive") -> "Wait"
              [] entity.ai = Some("Fleeing") -> decide_flee(entity, dijkstra, m, entities)
              [] is_boss(entity) -> decide_boss(entity, player, distance, dijkstra, m, entities)
              [] entity.ai = None -> "Wait"

\* ---------------------------------------------------------- enemy phase
moved(st, entity_id, to) ==
    [w |-> move_entity(st.w, entity_id, to),
     ev |-> Append(st.ev, Ev("Moved", entity_id, NoId, 0, FALSE))]

\* World::move_toward_player
move_toward_player(st, entity_id) ==
    IF ~has_entity(st.w, entity_id) \/ ~IsSome(st.w.dijkstra) THEN st
    ELSE LET next == best_neighbor(Unwrap(st.w.dijkstra), entity_of(st.w, entity_id).position,
                                   st.w.map)
         IN IF IsSome(next) /\ ~is_blocked(st.w, Unwrap(next), entity_id)
            THEN moved(st, entity_id, Unwrap(next)) ELSE st

\* World::move_away_from_player
move_away_from_player(st, entity_id) ==
    IF ~has_entity(st.w, entity_id) \/ ~IsSome(st.w.dijkstra) THEN st
    ELSE LET next == flee_neighbor(Unwrap(st.w.dijkstra), entity_of(st.w, entity_id).position,
                                   st.w.map)
         IN IF IsSome(next) /\ ~is_blocked(st.w, Unwrap(next), entity_id)
            THEN moved(st, entity_id, Unwrap(next)) ELSE st

\* World::move_random
move_random(st, entity_id) ==
    IF ~has_entity(st.w, entity_id) THEN {st}
    ELSE { LET new_pos == apply_direction(entity_of(st.w, entity_id).position, DirNames[k])
           IN IF /\ in_bounds(new_pos[1], new_pos[2])
                 /\ is_walkable(st.w.map, new_pos[1], new_pos[2])
                 /\ ~is_blocked(st.w, new_pos, entity_id)
              THEN moved(st, entity_id, new_pos) ELSE st
           : k \in 1..8 }

\* World::resolve_enemy_turn.  Its match has no arm for BossSummon, BossCharge,
\* BossTeleport and BossFrostBolt: a turn in which an enemy decides on one of
\* them has no outcome here.
resolve_enemy_turn(st, entity_id) ==
    IF ~has_entity(st.w, entity_id) \/ ~has_entity(st.w, PLAYER_ID) THEN {st}
    ELSE
      With(decide_action(entity_of(st.w, entity_id), player_of(st.w), st.w.dijkstra,
                         st.w.map, st.w.entities),
           LAMBDA action :
             CASE action \in {"MeleeAttack", "RangedAttack"} ->
                    perform_attack(st, entity_id, PLAYER_ID)
               [] action = "MoveToward" -> {move_toward_player(st, entity_id)}
               [] action = "MoveAway" -> {move_away_from_player(st, entity_id)}
               [] action = "MoveRandom" -> move_random(st, entity_id)
               [] action = "Wait" -> {st}
               [] OTHER -> {})

\* *self.energy.entry(id).or_insert(0) += amount
energy_of(w, id) == IF id \in DOMAIN w.energy THEN w.energy[id] ELSE 0
add_energy(w, id, amount) ==
    [w EXCEPT !.energy = [k \in (DOMAIN @) \cup {id} |->
                            IF k = id THEN energy_of(w, id) + amount ELSE @[k]]]

\* an enemy phase that takes an id for a place in the entity list
acting_ids_in_list(w) ==
    LET acts(e) == IsSome(e.ai) /\ IsSome(e.combat) /\ e.id # PLAYER_ID /\ e.id < Len(w.entities)
        es == SelectSeq(w.entities, acts)
    IN [k \in 1..Len(es) |-> es[k].id]


\* the entities the enemy phase runs over, in the order of the entity list
acting_ids(w) ==
    LET acts(e) == IsSome(e.ai) /\ IsSome(e.combat) /\ e.id # PLAYER_ID
        es == SelectSeq(w.entities, acts)
    IN [k \in 1..Len(es) |-> es[k].id]

speed_of(w, id) == IF has_entity(w, id) THEN effective_speed(entity_of(w, id)) ELSE 100

RECURSIVE grant_energy(_, _, _)
grant_energy(w, ids, k) ==
    IF k > Len(ids) THEN w
    ELSE grant_energy(add_energy(w, ids[k], speed_of(w, ids[k])), ids, k + 1)

\* a slot that is paid for and then used whatever the entity's statuses
enemy_slot_ignoring_stun(st, id) ==
    resolve_enemy_turn([st EXCEPT !.w = add_energy(@, id, -ENERGY_THRESHOLD)], id)

\* the body of the loop of World::process_enemy_turns for an entity whose
\* energy has reached the threshold: the slot is paid for, and a stunned
\* entity does nothing with it
enemy_slot(st, id) ==
    LET st1 == [st EXCEPT !.w = add_energy(@, id, -ENERGY_THRESHOLD)] IN
    IF is_stunned(entity_of(st1.w, id)) THEN {st1}
    ELSE resolve_enemy_turn(st1, id)

\* the loop of World::process_enemy_turns: one pass over the entities, left
\* when the player has died
RECURSIVE enemy_loop(_, _, _)
enemy_loop(st, ids, k) ==
    IF k > Len(ids) THEN {st}
    ELSE IF ~has_entity(st.w, ids[k]) THEN enemy_loop(st, ids, k + 1)
    ELSE IF energy_of(st.w, ids[k]) >= ENERGY_THRESHOLD
    THEN Bind(enemy_slot(st, ids[k]),
              LAMBDA st2 : IF ~is_stunned(entity_of(st.w, ids[k])) /\ is_player_dead(st2.w)
                           THEN {st2}
                           ELSE enemy_loop(st2, ids, k + 1))
    ELSE enemy_loop(st, ids, k + 1)

\* World::process_enemy_turns
process_enemy_turns(st) ==
    LET ids == acting_ids(st.w)
        w1 == grant_energy(st.w, ids, 1)
        w2 == add_energy(w1, PLAYER_ID, speed_of(w1, PLAYER_ID))
    IN enemy_loop([st EXCEPT !.w = w2], ids, 1)

\* -------------------------------------------------------- end of a turn
\* health.current = (health.current + amount).min(health.max)
heal_entity(w, id, amount) ==
    IF ~has_entity(w, id) THEN w
    ELSE LET e == entity_of(w, id) IN
         IF ~IsSome(e.health) THEN w
         ELSE set_entity(w, id,
                [e EXCEPT !.health = Some([Unwrap(@) EXCEPT
                                             !.current = Min(@ + amount, Unwrap(e.health).max)])])

\* the effect loop of World::tick_status_effects for one entity
RECURSIVE tick_effects(_, _, _, _)
tick_effects(st, id, effects, j) ==
    IF j > Len(effects) THEN st
    ELSE
      LET effect == effects[j]
          src(w, text) == IF id = PLAYER_ID THEN [w EXCEPT !.last_damage_source = Some(text)]
                          ELSE w
          st1 ==
            CASE effect.effect_type = "Poison" ->
                   LET damage == Max(effect.magnitude, PoisonMin) IN
                   [w |-> push_message(damage_entity(src(st.w, "Succumbed to poison"), id, damage),
                                       "takes poison damage"),
                    ev |-> Append(st.ev, Ev("DamageTaken", id, NoId, damage, FALSE))]
              [] effect.effect_type = "Burning" ->
                   LET damage == Max(effect.magnitude, BurningMin) IN
                   [w |-> push_message(damage_entity(src(st.w, "Burned to death"), id, damage),
                                       "takes fire damage"),
                    ev |-> Append(st.ev, Ev("DamageTaken", id, NoId, damage, FALSE))]
              [] effect.effect_type = "Regenerating" ->
                   LET heal == Max(effect.magnitude, RegenMin) IN
                   [w |-> heal_entity(st.w, id, heal),
                    ev |-> Append(st.ev, Ev("Healed", id, NoId, heal, FALSE))]
              [] OTHER -> st
      IN tick_effects(st1, id, effects, j + 1)

\* a duration pass that announces an expired effect and keeps it
tick_durations_lingering(st, id) ==
    IF ~has_entity(st.w, id) THEN st
    ELSE
      LET e == entity_of(st.w, id)
          dec == [k \in 1..Len(e.status_effects) |->
                    IF e.status_effects[k].duration > 0
                    THEN [e.status_effects[k] EXCEPT !.duration = @ - 1]
                    ELSE e.status_effects[k]]
          gone(k) == e.status_effects[k].duration > 0 /\ dec[k].duration = 0
          expired_ix == SelectSeq([k \in 1..Len(dec) |-> k], gone)
      IN [w |-> set_entity(st.w, id, [e EXCEPT !.status_effects = dec]),
          ev |-> st.ev \o [k \in 1..Len(expired_ix) |->
                             Ev("StatusExpired", id, NoId, 0, FALSE)]]

\* the duration pass of World::tick_status_effects for one entity
tick_durations(st, id) ==
    IF ~has_entity(st.w, id) THEN st
    ELSE
      LET e == entity_of(st.w, id)
          dec == [k \in 1..Len(e.status_effects) |->
                    IF e.status_effects[k].duration > 0
                    THEN [e.status_effects[k] EXCEPT !.duration = @ - 1]
                    ELSE e.status_effects[k]]
          gone(k) == e.status_effects[k].duration > 0 /\ dec[k].duration = 0
          alive(x) == x.duration > 0
          expired_ix == SelectSeq([k \in 1..Len(dec) |-> k], gone)
      IN [w |-> set_entity(st.w, id, [e EXCEPT !.status_effects = SelectSeq(dec, alive)]),
          ev |-> st.ev \o [k \in 1..Len(expired_ix) |->
                             Ev("StatusExpired", id, NoId, 0, FALSE)]]

RECURSIVE tick_entities(_, _, _)
tick_entities(st, ids, k) ==
    IF k > Len(ids) THEN st
    ELSE LET effects == IF has_entity(st.w, ids[k])
                        THEN entity_of(st.w, ids[k]).status_effects ELSE <<>>
         IN tick_entities(tick_durations(tick_effects(st, ids[k], effects, 1), ids[k]),
                          ids, k + 1)

\* World::tick_status_effects
tick_status_effects(st) ==
    tick_entities(st, [k \in 1..Len(st.w.entities) |-> st.w.entities[k].id], 1)

\* the older check_spotted_enemies, which reports every enemy in view
check_spotted_enemies_every_turn(st) ==
    LET visible == IF has_entity(st.w, PLAYER_ID) /\ IsSome(player_of(st.w).fov)
                   THEN Unwrap(player_of(st.w).fov).visible_tiles ELSE {}
        seen(e) == IsSome(e.ai) /\ e.position \in visible
        spotted == SelectSeq(st.w.entities, seen)
    IN [w |-> [st.w EXCEPT !.spotted_enemies =
                  @ \cup {spotted[k].id : k \in 1..Len(spotted)}],
        ev |-> st.ev \o [k \in 1..Len(spotted) |->
                           Ev("EnemySpotted", spotted[k].id, NoId, 0, FALSE)]]

\* World::check_spotted_enemies
check_spotted_enemies(st) ==
    LET visible == IF has_entity(st.w, PLAYER_ID) /\ IsSome(player_of(st.w).fov)
                   THEN Unwrap(player_of(st.w).fov).visible_tiles ELSE {}
        fresh(e) == IsSome(e.ai) /\ e.position \in visible /\ e.id \notin st.w.spotted_enemies
        newly_spotted == SelectSeq(st.w.entities, fresh)
    IN [w |-> [st.w EXCEPT !.spotted_enemies =
                  @ \cup {newly_spotted[k].id : k \in 1..Len(newly_spotted)}],
        ev |-> st.ev \o [k \in 1..Len(newly_spotted) |->
                           Ev("EnemySpotted", newly_spotted[k].id, NoId, 0, FALSE)]]

\* fov::compute_fov on the arena's tiles, which no action of the arena changes
FovTable ==
    [t \in {ArenaMap.tiles, StairsMap.tiles} |->
       [p \in AllPositions |-> [r \in {PlayerFovRadius, EnemyFovRadius} |->
                                  compute_fov(p, r, [ArenaMap EXCEPT !.tiles = t])]]]
fov_of(pos, radius, m) ==
    IF m.tiles \in {ArenaMap.tiles, StairsMap.tiles} /\ pos \in AllPositions
       /\ radius \in {PlayerFovRadius, EnemyFovRadius}
    THEN FovTable[m.tiles][pos][radius] ELSE compute_fov(pos, radius, m)

RECURSIVE reveal_all(_, _)
reveal_all(m, S) ==
    IF S = {} THEN m
    ELSE LET p == CHOOSE q \in S : TRUE IN reveal_all(reveal(m, p[1], p[2]), S \ {p})

RECURSIVE fov_loop(_, _, _)
fov_loop(w, todo, k) ==
    IF k > Len(todo) THEN w
    ELSE
      With(fov_of(todo[k].position, Unwrap(todo[k].fov).radius, w.map),
        LAMBDA visible :
          LET id == todo[k].id
              w1 == IF id = PLAYER_ID THEN [w EXCEPT !.map = reveal_all(@, visible)] ELSE w
              w2 == IF has_entity(w1, id) /\ IsSome(entity_of(w1, id).fov)
                    THEN set_entity(w1, id,
                           [entity_of(w1, id) EXCEPT
                              !.fov = Some([Unwrap(@) EXCEPT !.visible_tiles = visible,
                                                             !.dirty = FALSE])])
                    ELSE w1
          IN fov_loop(w2, todo, k + 1))

\* World::recompute_fov
recompute_fov(w) ==
    LET dirty(e) == IsSome(e.fov) /\ Unwrap(e.fov).dirty
    IN fov_loop(w, SelectSeq(w.entities, dirty), 1)

\* DijkstraMap::compute on the arena's tiles
DijkstraTable ==
    [t \in {ArenaMap.tiles, StairsMap.tiles} |->
       [p \in AllPositions |-> dijkstra_compute([ArenaMap EXCEPT !.tiles = t], p)]]
dijkstra_of(m, source) ==
    IF m.tiles \in {ArenaMap.tiles, StairsMap.tiles} /\ source \in AllPositions
    THEN DijkstraTable[m.tiles][source] ELSE dijkstra_compute(m, source)

\* World::recompute_dijkstra
recompute_dijkstra(w) ==
    IF ~has_entity(w, PLAYER_ID) THEN w
    ELSE [w EXCEPT !.dijkstra = Some(dijkstra_of(w.map, player_of(w).position))]

\* World::build_turn_result: the events and the game-over report
build_turn_result(w, events) ==
    [w |-> w, ev |-> events,
     go |-> IF w.victory /\ w.game_over THEN Some([victory |-> TRUE]) ELSE None]

\* a death report that first grants the enemies their energy
handle_player_death_granting_energy(st) ==
    LET w1 == push_message([grant_energy(st.w, acting_ids(st.w), 1) EXCEPT !.game_over = TRUE],
                           "You have been slain!")
    IN [w |-> w1, ev |-> Append(st.ev, Ev("PlayerDied", NoId, NoId, 0, FALSE)),
        go |-> Some([victory |-> FALSE])]

\* World::handle_player_death
handle_player_death(st) ==
    LET w1 == push_message([st.w EXCEPT !.game_over = TRUE], "You have been slain!")
    IN [w |-> w1, ev |-> Append(st.ev, Ev("PlayerDied", NoId, NoId, 0, FALSE)),
        go |-> Some([victory |-> FALSE])]

\* phases that do not look at the player after the status tick
enemy_phase_and_tick_unchecked(st) ==
    Bind(process_enemy_turns(st),
         LAMBDA st1 :
           IF is_player_dead(st1.w) THEN {handle_player_death(st1)}
           ELSE With(check_spotted_enemies(
                       [tick_status_effects(st1) EXCEPT
                          !.w = recompute_dijkstra(recompute_fov(@))]),
                     LAMBDA st3 : {build_turn_result(st3.w, st3.ev)}))

\* World::resolve_turn from the enemy phase on: the enemy phase, the status
\* tick and the recomputations
enemy_phase_and_tick(st) ==
    Bind(process_enemy_turns(st),
         LAMBDA st1 :
           IF is_player_dead(st1.w) THEN {handle_player_death(st1)}
           ELSE With(tick_status_effects(st1),
                  LAMBDA st2 :
                    IF is_player_dead(st2.w) THEN {handle_player_death(st2)}
                    ELSE With(check_spotted_enemies(
                                [st2 EXCEPT !.w = recompute_dijkstra(recompute_fov(@))]),
                              LAMBDA st3 : {build_turn_result(st3.w, st3.ev)})))

\* a turn that runs its phases without counting itself
finish_turn_keeping_turn(st) ==
    IF is_player_dead(st.w) THEN {handle_player_death(st)} ELSE enemy_phase_and_tick(st)

\* World::resolve_turn after the player's action: the death check, the
\* turn counter and the phases
finish_turn(st) ==
    IF is_player_dead(st.w) THEN {handle_player_death(st)}
    ELSE enemy_phase_and_tick([st EXCEPT !.w.turn = @ + 1])

\* ---------------------------------------------------------------- arena
\* One room of a generated floor: the start position of the player, two
\* enemies of the first floors, a trap of each damaging kind and a fountain.
StartPos == <<1, 1>>
RatId == 1
Rat2Id == 2
SpikeId == 3
PoisonTrapId == 4
FountainId == 5
StairsId == 6

\* placement::spawn_entities on the arena.  Every entity takes its id from
\* placement::next_id, the counter of the process: `first` is the value of the
\* counter at the call.  In a process that has made no entity yet the ids are
\* RatId .. FountainId.
spawn_entities(floor, first) ==
    << create_enemy_from_template(first, "Rat", <<4, 1>>),
       create_enemy_from_template(first + 1, "Rat", <<4, 2>>),
       create_trap(first + 2, <<1, 2>>, "Spike", 5 + floor, 0),
       create_trap(first + 3, <<2, 2>>, "Poison", 2, 3),
       create_interactable(first + 4, <<3, 2>>, "Fountain") >>

\* the energy map of a new floor: 0 for every entity with combat stats
init_energy(entities) ==
    [id \in {entities[k].id : k \in {j \in 1..Len(entities) : IsSome(entities[j].combat)}}
        |-> 0]

\* World::place_stairs: an entity for the first DownStairs tile of the scan
place_stairs(m, entities, id) ==
    LET S == {i \in 0..(MapSize - 1) : m.tiles[i] = DownStairs} IN
    IF S = {} THEN entities
    ELSE Append(entities, create_stairs(id, idx_to_pos(MinOf(S))))

\* a descent that starts the floor with a new player entity
fresh_player(w) == spawn_player(StartPos)

\* the player entity World::try_use_stairs keeps: moved to the start of the
\* new floor, its field of view to be recomputed
kept_player(w) ==
    [player_of(w) EXCEPT
       !.position = StartPos,
       !.fov = IF IsSome(@) THEN Some([Unwrap(@) EXCEPT !.dirty = TRUE]) ELSE @]

\* a descent that takes the list of spotted enemies along to the new floor
try_use_stairs_keeping_spotted(st) ==
    LET P(e) == e.position = player_of(st.w).position /\ e.stair = Some("Down")
        floor == st.w.floor + 1
        first == st.w.next_entity_id
        w1 == With(<<kept_player(st.w)>> \o spawn_entities(floor, first),
                LAMBDA entities :
                  [push_message([st.w EXCEPT !.floor = floor], "You descend") EXCEPT
                     !.map = ArenaMap, !.entities = entities,
                     !.energy = init_energy(entities),
                     !.next_entity_id = first + Len(entities) - 1])
    IN IF ~IsSome(first_id(SelectSeq(st.w.entities, P)))
       THEN say(st, "There are no stairs here.")
       ELSE [w |-> recompute_dijkstra(recompute_fov(w1)),
             ev |-> Append(st.ev, Ev("StairsDescended", NoId, NoId, floor, FALSE))]

\* World::try_use_stairs: with stairs down under the player, the player is
\* kept and the floor is generated anew
try_use_stairs(st) ==
    LET P(e) == e.position = player_of(st.w).position /\ e.stair = Some("Down")
        floor == st.w.floor + 1
        first == st.w.next_entity_id
        w1 == With(place_stairs(ArenaMap,
                                <<kept_player(st.w)>> \o spawn_entities(floor, first),
                                first + Len(spawn_entities(floor, first))),
                LAMBDA entities :
                  [push_message([st.w EXCEPT !.floor = floor], "You descend") EXCEPT
                     !.map = ArenaMap, !.entities = entities,
                     !.energy = init_energy(entities), !.spotted_enemies = {},
                     !.next_entity_id = first + Len(entities) - 1])
    IN IF ~IsSome(first_id(SelectSeq(st.w.entities, P)))
       THEN say(st, "There are no stairs here.")
       ELSE [w |-> recompute_dijkstra(recompute_fov(w1)),
             ev |-> Append(st.ev, Ev("StairsDescended", NoId, NoId, floor, FALSE))]

\* inv.items.iter_mut().find(|i| i.id == item.id)
RECURSIVE item_at(_, _, _)
item_at(items, id, i) ==
    IF i > Len(items) THEN 0
    ELSE IF items[i].id = id THEN i ELSE item_at(items, id, i + 1)

\* the first of the enemies in the player's view nearest to the player
nearest_enemy(w) ==
    LET player == player_of(w)
        player_fov == IF IsSome(player.fov) THEN Unwrap(player.fov).visible_tiles ELSE {}
        seen(e) == IsSome(e.ai) /\ e.position \in player_fov
        cand == SelectSeq(w.entities, seen)
        dist(e) == chebyshev_distance(e.position, player.position)
        nearest(e) == \A k \in 1..Len(cand) : dist(e) <= dist(cand[k])
    IN first_id(SelectSeq(cand, nearest))

\* charges.saturating_sub(1) on the item of the player's inventory
spend_charge(w, item_id) ==
    LET player == player_of(w)
        inv == Unwrap(player.inventory)
        spent(it) == IF it.id = item_id /\ IsSome(it.item) /\ IsSome(Unwrap(it.item).charges)
                     THEN [it EXCEPT !.item = Some([Unwrap(@) EXCEPT
                                          !.charges = Some(Max(Unwrap(@) - 1, 0))])]
                     ELSE it
        k == item_at(inv.items, item_id, 1)
    IN IF ~IsSome(player.inventory) \/ k = 0 THEN w
       ELSE set_entity(w, PLAYER_ID,
              [player EXCEPT !.inventory = Some([inv EXCEPT !.items[k] = spent(@)])])

\* the end of World::try_use_item: the ItemUsed event, and a consumable
\* leaves the inventory
item_used(st, item) ==
    LET player == player_of(st.w)
        others(it) == it.id # item.id
        w1 == IF is_consumable(Unwrap(item.item).item_type) /\ has_entity(st.w, PLAYER_ID)
                 /\ IsSome(player.inventory)
              THEN set_entity(st.w, PLAYER_ID,
                     [player EXCEPT !.inventory =
                        Some([Unwrap(@) EXCEPT !.items = SelectSeq(@, others)])])
              ELSE st.w
    IN [w |-> w1, ev |-> Append(st.ev, Ev("ItemUsed", NoId, NoId, 0, FALSE))]

\* World::try_use_item, for the effects of the items of the kit
try_use_item(st, item_idx) ==
    IF ~has_entity(st.w, PLAYER_ID) \/ ~IsSome(player_of(st.w).inventory) THEN {st}
    ELSE IF item_idx >= Len(Unwrap(player_of(st.w).inventory).items)
    THEN {say(st, "Invalid item.")}
    ELSE
      LET item == Unwrap(player_of(st.w).inventory).items[item_idx + 1] IN
      IF ~IsSome(item.item) THEN {st}
      ELSE
        LET item_props == Unwrap(item.item) IN
        IF ~is_consumable(item_props.item_type) /\ item_props.item_type # "Wand"
        THEN {say(st, "You can't use that item directly")}
        ELSE IF ~IsSome(item_props.effect) THEN {say(st, "This item has no effect.")}
        ELSE
          LET effect == Unwrap(item_props.effect) IN
          CASE effect.kind = "ApplyStatus" ->
                 LET player == player_of(st.w)
                     others(x) == x.effect_type # effect.effect
                     w1 == set_entity(st.w, PLAYER_ID,
                             [player EXCEPT !.status_effects =
                                Append(SelectSeq(@, others),
                                       StatusEffect(effect.effect, effect.duration, 0))])
                 IN {item_used(
                       [w |-> push_message(w1, "You feel the effects"),
                        ev |-> Append(st.ev, Ev("StatusApplied", PLAYER_ID, NoId,
                                                effect.duration, FALSE))],
                       item)}
            [] effect.kind = "RangedAttack" ->
                 IF item_props.charges = Some(0)
                 THEN {say(st, "The wand is out of charges.")}
                 ELSE IF ~IsSome(nearest_enemy(st.w)) THEN {say(st, "No visible targets.")}
                 ELSE
                   LET target_id == Unwrap(nearest_enemy(st.w))
                       w1 == push_message(damage_entity(st.w, target_id, effect.damage), "zaps")
                       w2 == IF IsSome(effect.status)
                             THEN push_status(w1, target_id,
                                    StatusEffect(Unwrap(effect.status).effect,
                                                 Unwrap(effect.status).duration, 0))
                             ELSE w1
                       st1 == [w |-> w2,
                               ev |-> Append(st.ev, Ev("DamageTaken", target_id, NoId,
                                                       effect.damage, FALSE))]
                       target == entity_of(w2, target_id)
                       dead == IsSome(target.health) /\ is_dead(Unwrap(target.health))
                       zapped(s1) == item_used([s1 EXCEPT !.w = spend_charge(@, item.id)], item)
                   IN IF dead THEN {zapped(s1) : s1 \in handle_entity_death(st1, target_id)}
                      ELSE {zapped(st1)}

\* ------------------------------------------------------------ inventory
\* slots.iter().any(|slot| *slot == Some(item_id)) over the six slots
is_equipped(player, item_id) ==
    IF ~IsSome(player.equipment) THEN FALSE
    ELSE \E k \in 1..Len(EquipSlots) : Unwrap(player.equipment)[EquipSlots[k]] = Some(item_id)

\* inv.items.retain(|i| i.id != item_id) on the player's inventory
retain_other_items(w, item_id) ==
    LET others(it) == it.id # item_id IN
    IF ~has_entity(w, PLAYER_ID) \/ ~IsSome(player_of(w).inventory) THEN w
    ELSE set_entity(w, PLAYER_ID,
           [player_of(w) EXCEPT !.inventory =
              Some([Unwrap(@) EXCEPT !.items = SelectSeq(@, others)])])

\* equip.set_slot(slot, v) on the player
set_slot(w, slot, v) ==
    IF ~has_entity(w, PLAYER_ID) \/ ~IsSome(player_of(w).equipment) THEN w
    ELSE set_entity(w, PLAYER_ID,
           [player_of(w) EXCEPT !.equipment = Some([Unwrap(@) EXCEPT ![slot] = v])])

\* World::try_drop_item
try_drop_item(st, item_idx) ==
    IF ~has_entity(st.w, PLAYER_ID) \/ ~IsSome(player_of(st.w).inventory) THEN st
    ELSE IF item_idx >= Len(Unwrap(player_of(st.w).inventory).items)
    THEN say(st, "Invalid item.")
    ELSE
      LET item == Unwrap(player_of(st.w).inventory).items[item_idx + 1] IN
      IF is_equipped(player_of(st.w), item.id) THEN say(st, "Unequip the item first.")
      ELSE [w |-> [push_message(retain_other_items(st.w, item.id), "You drop the") EXCEPT
                     !.entities = Append(@, [item EXCEPT
                                               !.position = player_of(st.w).position])],
            ev |-> Append(st.ev, Ev("ItemDropped", item.id, NoId, 0, FALSE))]

\* World::try_equip_item
try_equip_item(st, item_idx) ==
    IF ~has_entity(st.w, PLAYER_ID) \/ ~IsSome(player_of(st.w).inventory) THEN st
    ELSE IF item_idx >= Len(Unwrap(player_of(st.w).inventory).items)
    THEN say(st, "Invalid item.")
    ELSE
      LET item == Unwrap(player_of(st.w).inventory).items[item_idx + 1] IN
      IF ~IsSome(item.item) THEN st
      ELSE IF ~IsSome(Unwrap(item.item).slot) THEN say(st, "This item can't be equipped.")
      ELSE
        LET slot == Unwrap(Unwrap(item.item).slot)
            worn == IsSome(player_of(st.w).equipment)
                    /\ IsSome(Unwrap(player_of(st.w).equipment)[slot])
            w1 == IF worn THEN push_message(set_slot(st.w, slot, None), "You unequip the")
                  ELSE st.w
        IN [w |-> push_message(set_slot(w1, slot, Some(item.id)), "You equip the"),
            ev |-> Append(st.ev, Ev("ItemEquipped", item.id, NoId, 0, FALSE))]

\* World::try_unequip_slot
try_unequip_slot(st, slot) ==
    IF IsSome(player_of(st.w).equipment) /\ IsSome(Unwrap(player_of(st.w).equipment)[slot])
    THEN say([st EXCEPT !.w = set_slot(@, slot, None)], "You unequip the item.")
    ELSE say(st, "Nothing equipped in that slot.")

\* ----------------------------------------------------------------- shop
\* placement::generate_shop_inventory's price and state::item_base_price of
\* an Uncommon item, the rarity of every item of ItemTemplates
UncommonPrice == 12
shop_price(floor) == UncommonPrice + (floor \div 2)
item_base_price(name) == (UncommonPrice + 1) \div 2

\* placement::create_shopkeeper
create_shopkeeper(id, pos, shop_items) ==
    [BlankEntity(id, "Shopkeeper", pos) EXCEPT
        !.blocks_movement = TRUE,
        !.shop = Some([items |-> shop_items])]

\* World::try_buy_item: the item bought takes its id from placement::next_id
try_buy_item(st, shop_id, index) ==
    IF ~has_entity(st.w, shop_id) \/ ~IsSome(entity_of(st.w, shop_id).shop)
    THEN say(st, "That's not a shop.")
    ELSE
      LET shop_e == entity_of(st.w, shop_id)
          shop == Unwrap(shop_e.shop)
      IN
      IF index >= Len(shop.items) THEN say(st, "Invalid item.")
      ELSE
        LET shop_item == shop.items[index + 1]
            player_inv == player_of(st.w).inventory
            inv_full == IF has_entity(st.w, PLAYER_ID) /\ IsSome(player_inv)
                        THEN Len(Unwrap(player_inv).items) >= Unwrap(player_inv).max_size
                        ELSE TRUE
        IN
        IF st.w.gold < shop_item.price THEN say(st, "Not enough gold!")
        ELSE IF inv_full THEN say(st, "Your inventory is full!")
        ELSE
          LET item_entity == create_item(st.w.next_entity_id, shop_item.name, <<0, 0>>)
              w1 == set_entity([st.w EXCEPT !.gold = @ - shop_item.price,
                                            !.next_entity_id = @ + 1],
                      PLAYER_ID,
                      [player_of(st.w) EXCEPT !.inventory =
                         Some([Unwrap(@) EXCEPT !.items = Append(@, item_entity)])])
              w2 == With(entity_of(w1, shop_id),
                      LAMBDA e : set_entity(w1, shop_id,
                        [e EXCEPT !.shop = Some([shop EXCEPT
                           !.items = [j \in 1..(Len(@) - 1) |->
                                        IF j < index + 1 THEN @[j] ELSE @[j + 1]]])]))
          IN [w |-> push_message(w2, "Bought"),
              ev |-> Append(st.ev, Ev("ItemBought", NoId, NoId, shop_item.price, FALSE))]

\* World::try_sell_item
try_sell_item(st, item_index, shop_id) ==
    IF ~has_entity(st.w, shop_id) \/ ~IsSome(entity_of(st.w, shop_id).shop)
    THEN say(st, "That's not a shop.")
    ELSE IF ~has_entity(st.w, PLAYER_ID) \/ ~IsSome(player_of(st.w).inventory)
            \/ item_index >= Len(Unwrap(player_of(st.w).inventory).items)
    THEN say(st, "Invalid item.")
    ELSE
      LET item == Unwrap(player_of(st.w).inventory).items[item_index + 1]
          sell_price == Max(item_base_price(item.name), 1)
      IN
      IF is_equipped(player_of(st.w), item.id) THEN say(st, "Unequip that item first.")
      ELSE [w |-> push_message([retain_other_items(st.w, item.id) EXCEPT
                                  !.gold = @ + sell_price], "Sold"),
            ev |-> Append(st.ev, Ev("ItemSold", NoId, NoId, sell_price, FALSE))]

\* World::resolve_player_action, for the actions of PlayerActions
resolve_player_action(st, action) ==
    CASE action.type = "Move" ->
           LET player_pos == player_of(st.w).position
               new_pos == apply_direction(player_pos, action.arg)
           IN IF IsSome(hostile_entity_at(st.w, new_pos))
              THEN perform_attack(st, PLAYER_ID, Unwrap(hostile_entity_at(st.w, new_pos)))
              ELSE IF IsSome(shop_entity_at(st.w, new_pos))
              THEN {say(st, "welcomes you to their shop")}
              ELSE IF can_move_to(st.w, new_pos)
              THEN IF IsSome(door_at(st.w, new_pos))
                   THEN {try_open_door(st, Unwrap(door_at(st.w, new_pos)))}
                   ELSE check_traps(
                          [w |-> move_entity(st.w, PLAYER_ID, new_pos),
                           ev |-> Append(st.ev, Ev("Moved", PLAYER_ID, NoId, 0, FALSE))],
                          PLAYER_ID, new_pos)
              ELSE {say(st, "You can't move there")}
      [] action.type = "Wait" -> {say(st, "You wait")}
      [] action.type = "Interact" -> try_interact(st)
      [] action.type = "UseStairs" -> {try_use_stairs(st)}
      [] action.type = "UseItem" -> try_use_item(st, action.arg)
      [] action.type = "DropItem" -> {try_drop_item(st, action.arg)}
      [] action.type = "EquipItem" -> {try_equip_item(st, action.arg)}
      [] action.type = "UnequipSlot" -> {try_unequip_slot(st, action.arg)}
      [] action.type = "BuyItem" -> {try_buy_item(st, action.arg.shop_id, action.arg.index)}
      [] action.type = "SellItem" -> {try_sell_item(st, action.arg.index, action.arg.shop_id)}
      [] action.type = "LevelUpChoice" -> {[st EXCEPT !.w = apply_level_up(@, action.arg)]}

\* a pending level-up under which any other action costs a turn
resolve_pending_costing_turn(w, action) ==
    build_turn_result(IF action.type = "LevelUpChoice" THEN apply_level_up(w, action.arg)
                      ELSE [w EXCEPT !.turn = @ + 1], <<>>)

\* World::resolve_turn while a level-up choice is pending
resolve_pending(w, action) ==
    build_turn_result(IF action.type = "LevelUpChoice" THEN apply_level_up(w, action.arg)
                      ELSE w, <<>>)

\* a resolve_turn that counts the turn before it looks at game_over
resolve_turn_counting_first(w, action) ==
    IF w.game_over THEN {build_turn_result([w EXCEPT !.turn = @ + 1], <<>>)}
    ELSE IF w.pending_level_up THEN {resolve_pending(w, action)}
    ELSE Bind(resolve_player_action([w |-> w, ev |-> <<>>], action), finish_turn)

\* World::resolve_turn
resolve_turn(w, action) ==
    IF w.game_over THEN {build_turn_result(w, <<>>)}
    ELSE IF w.pending_level_up THEN {resolve_pending(w, action)}
    ELSE Bind(resolve_player_action([w |-> w, ev |-> <<>>], action), finish_turn)

\* World::new in a process whose counter of placement::next_id stands at first
World_new_from(first) ==
    LET w == With(place_stairs(ArenaMap, <<spawn_player(StartPos)>> \o spawn_entities(1, first),
                               first + Len(spawn_entities(1, first))),
               LAMBDA entities :
                 [floor |-> 1, turn |-> 0, map |-> ArenaMap, entities |-> entities,
                  energy |-> init_energy(entities), dijkstra |-> None,
                  messages |-> [len |-> 0, last |-> ""],
                  pending_level_up |-> FALSE, player_level |-> 1, player_xp |-> 0,
                  enemies_killed |-> 0, bosses_killed |-> 0, game_over |-> FALSE,
                  victory |-> FALSE, gold |-> 0, last_damage_source |-> None,
                  spotted_enemies |-> {}, next_entity_id |-> first + Len(entities) - 1])
    IN push_message(recompute_dijkstra(recompute_fov(w)), "Welcome to CryptForge! Press ? for help.")

\* World::new, the first of its process
World_new == World_new_from(RatId)

\* save::save_world and then save::load_world in a process that has made no
\* entity yet: every field of the World comes back as it was saved, and the
\* counter of placement::next_id, which is no field of the World, is at 1
load_world(w) == [w EXCEPT !.next_entity_id = 1]

\* A first floor played to its stairs: the player wounded by its fights and
\* one kill short of the second level.
Carried == [xp |-> 145, kills |-> 12, gold |-> 40, turn |-> 39, messages |-> 60]
CarriedHps == {5, 7}
PlayedFloor(hp) ==
    [With(load_world(World_new),
          LAMBDA w : set_entity(w, PLAYER_ID,
                       [player_of(w) EXCEPT !.health = Some([current |-> hp, max |-> 50])]))
     EXCEPT !.turn = Carried.turn, !.player_xp = Carried.xp, !.enemies_killed = Carried.kills,
            !.gold = Carried.gold, !.messages = [len |-> Carried.messages, last |-> "is defeated"],
            !.last_damage_source = Some("Slain by"),
            !.spotted_enemies = {RatId, Rat2Id},
            !.map.tiles = StairsMap.tiles,
            !.entities = Append(@, create_stairs(StairsId, StartPos))]

\* the worlds after n more calls of resolve_turn with Wait
RECURSIVE after_waits(_, _)
after_waits(W, n) ==
    IF n = 0 THEN W
    ELSE after_waits(UNION {{r.w : r \in resolve_turn(w, [type |-> "Wait", arg |-> ""])} : w \in W},
                     n - 1)

\* the worlds a session starts from: a new game, or a game saved on the
\* second floor SavedAfter turns after the turn that descended to it
Descended ==
    UNION {{r.w : r \in finish_turn(try_use_stairs([w |-> PlayedFloor(hp), ev |-> <<>>]))}
             : hp \in CarriedHps}
InitWorlds == {World_new} \cup {load_world(w) : w \in after_waits(Descended, SavedAfter)}

\* ------------------------------------------------------------ boss rooms
\* The boss room of a floor: the boss beside the player, its minions killed,
\* and the player carrying a kit: Chain Mail on the body, an Iron Shield in
\* the off hand, a Potion of Speed and a Wand of Ice.
BossId == 1
MailId == 2
ShieldId == 3
PotionId == 4
WandId == 5
BossPos == <<2, 1>>

\* the player of a boss room with hp hit points left and the effects it carries
kit_player(hp, effects) ==
    [spawn_player(StartPos) EXCEPT
        !.health = Some([current |-> hp, max |-> 50]),
        !.status_effects = effects,
        !.inventory = Some([items |-> << create_item(MailId, "Chain Mail", StartPos),
                                         create_item(ShieldId, "Iron Shield", StartPos),
                                         create_item(PotionId, "Potion of Speed", StartPos),
                                         create_item(WandId, "Wand of Ice", StartPos) >>,
                            max_size |-> 20]),
        !.equipment = Some([EquipmentSlots_empty EXCEPT !.body = Some(MailId),
                                                        !.off_hand = Some(ShieldId)])]

\* the boss of a floor with hp hit points left, in the phase it has reached
wounded_boss(name, hp, phase) ==
    [create_enemy_from_template(BossId, name, BossPos) EXCEPT
        !.health = Some([current |-> hp, max |-> BossTemplates[name].hp]),
        !.ai = Some(phase)]

\* a game in the boss room of a floor, loaded from its save
boss_room(floor, m, entities) ==
    LET w == [load_world(World_new) EXCEPT
                !.floor = floor, !.turn = Carried.turn, !.map = m, !.entities = entities,
                !.energy = init_energy(entities), !.player_xp = 20,
                !.enemies_killed = Carried.kills, !.gold = Carried.gold,
                !.messages = [len |-> Carried.messages, last |-> "hits"],
                !.last_damage_source = Some("Slain by"),
                !.spotted_enemies = {BossId}]
    IN recompute_dijkstra(recompute_fov(w))

\* floor 3: the Goblin King at half its hit points, the player on the stairs
GoblinKingRoom ==
    boss_room(3, StairsMap,
              << kit_player(30, <<>>), wounded_boss("Goblin King", 40, "BossPhase1"),
                 create_stairs(StairsId, StartPos) >>)

\* floor 10: The Lich one blow from its end; the player still poisoned by a
\* trap of the floor, with hp hit points left
LichHps == {2, 30}
LichRoom(hp) ==
    boss_room(10, ArenaMap,
              << kit_player(hp, <<StatusEffect("Poison", 2, 2)>>),
                 wounded_boss("The Lich", 1, "BossPhase2") >>)

BossRooms == {GoblinKingRoom} \cup {LichRoom(hp) : hp \in LichHps}

\* -------------------------------------------------------------- shop room
\* A game saved on a floor with a shop and loaded in a new process: the
\* player with the kit and the gold it carried, the shopkeeper with two items
\* on offer, and a Mimic that nothing has woken yet.
ShopkeeperId == 6
MimicId == 7
ShopFloor == 2
ShopkeeperPos == <<3, 1>>
MimicPos == <<4, 2>>
ShopRoom ==
    boss_room(ShopFloor, ArenaMap,
              << kit_player(30, <<>>),
                 create_enemy_from_template(MimicId, "Mimic", MimicPos),
                 create_shopkeeper(ShopkeeperId, ShopkeeperPos,
                    << [name |-> "Wand of Ice", price |-> shop_price(ShopFloor)],
                       [name |-> "Potion of Speed", price |-> shop_price(ShopFloor)] >>) >>)

\* ------------------------------------------------------------- door room
\* A floor with a closed door that is not locked: the tile is DoorClosed, the
\* entity carries the DoorState that door_at and try_open_door read, and the
\* blocked cache is the one refresh_blocked leaves for these tiles.  The
\* generators of src/ place no door; the room is a World built with one.
DoorId == 6
DoorFloor == 2
DoorPos == <<2, 2>>
DoorMap == refresh_blocked([ArenaMap EXCEPT !.tiles[idx(DoorPos[1], DoorPos[2])] = DoorClosed])
closed_door(id, pos) ==
    [BlankEntity(id, "Door", pos) EXCEPT
        !.door = Some([open |-> FALSE, locked |-> FALSE, key_id |-> None])]
DoorRoom ==
    boss_room(DoorFloor, DoorMap,
              << kit_player(30, <<>>),
                 create_enemy_from_template(RatId, "Rat", <<4, 2>>),
                 closed_door(DoorId, DoorPos) >>)

\* ----------------------------------------------------------------- spec
VARIABLES world, result, action, calls
vars == <<world, result, action, calls>>

NoAction == [type |-> "None", arg |-> ""]
NoResult == [ev |-> <<>>, go |-> None]

Init ==
    /\ world \in InitWorlds
    /\ result = NoResult
    /\ action = NoAction
    /\ calls = 0

\* commands::player_action: one call of World::resolve_turn with the action
\* the step has chosen
Resolve ==
    /\ calls < MaxCalls
    /\ \E r \in resolve_turn(world, action') :
          /\ world' = r.w
          /\ result' = [ev |-> r.ev, go |-> r.go]
    /\ calls' = calls + 1

ResolveMove(dir) ==
    /\ action' = [type |-> "Move", arg |-> dir]
    /\ Resolve
ResolveWait ==
    /\ action' = [type |-> "Wait", arg |-> ""]
    /\ Resolve
ResolveInteract ==
    /\ action' = [type |-> "Interact", arg |-> ""]
    /\ Resolve
ResolveLevelUpChoice(choice) ==
    /\ action' = [type |-> "LevelUpChoice", arg |-> choice]
    /\ Resolve

\* effects::apply_status on an entity of the world
ApplyTargets == {PLAYER_ID, RatId}
ApplyTypes == {"Stunned", "Poison"}
ApplyDuration == 2
ApplyMagnitude == 3
ApplyStatus(id, effect_type) ==
    /\ calls < MaxCalls
    /\ has_entity(world, id)
    /\ IsSome(entity_of(world, id).health)
    /\ world' = set_entity(world, id,
                   apply_status(entity_of(world, id), effect_type, ApplyDuration, ApplyMagnitude))
    /\ calls' = calls + 1
    /\ action' = [type |-> "ApplyStatus", arg |-> effect_type]
    /\ UNCHANGED result

ResolveUseItem(item_idx) ==
    /\ action' = [type |-> "UseItem", arg |-> item_idx]
    /\ Resolve
ResolveUseStairs ==
    /\ action' = [type |-> "UseStairs", arg |-> ""]
    /\ Resolve

\* the program driven through resolve_turn alone
Calls ==
    \/ \E dir \in {DirNames[k] : k \in 1..8} : ResolveMove(dir)
    \/ ResolveWait
    \/ ResolveInteract
    \/ \E choice \in LevelUpChoices : ResolveLevelUpChoice(choice)

SpecCalls == Init /\ [][Calls]_vars

\* the program with its status interface as well
Next ==
    \/ \E dir \in {DirNames[k] : k \in 1..8} : ResolveMove(dir)
    \/ ResolveWait
    \/ ResolveInteract
    \/ \E choice \in LevelUpChoices : ResolveLevelUpChoice(choice)
    \/ \E id \in ApplyTargets, effect_type \in ApplyTypes : ApplyStatus(id, effect_type)

Spec == Init /\ [][Next]_vars

\* a session in a boss room, with the items and the stairs in use
InitBoss ==
    /\ world \in BossRooms
    /\ result = NoResult
    /\ action = NoAction
    /\ calls = 0

KitSlots == 1..3
BossDirs == {"E", "S"}
BossApplyTypes == {"Stunned", "Confused", "Shielded", "Regenerating", "Hasted"}

NextBoss ==
    \/ \E dir \in BossDirs : ResolveMove(dir)
    \/ ResolveWait
    \/ \E item_idx \in KitSlots : ResolveUseItem(item_idx)
    \/ ResolveUseStairs
    \/ \E id \in ApplyTargets, effect_type \in BossApplyTypes : ApplyStatus(id, effect_type)

SpecBoss == InitBoss /\ [][NextBoss]_vars

\* a session in the shop room, with the inventory in use
InitShop ==
    /\ world = ShopRoom
    /\ result = NoResult
    /\ action = NoAction
    /\ calls = 0

ItemIdxs == 0..5
ShopIdxs == 0..1
WornSlots == {"body", "off_hand"}
ResolveDropItem(item_idx) ==
    /\ action' = [type |-> "DropItem", arg |-> item_idx]
    /\ Resolve
ResolveEquipItem(item_idx) ==
    /\ action' = [type |-> "EquipItem", arg |-> item_idx]
    /\ Resolve
ResolveUnequipSlot(slot) ==
    /\ action' = [type |-> "UnequipSlot", arg |-> slot]
    /\ Resolve
ResolveBuyItem(shop_id, index) ==
    /\ action' = [type |-> "BuyItem", arg |-> [shop_id |-> shop_id, index |-> index]]
    /\ Resolve
ResolveSellItem(index, shop_id) ==
    /\ action' = [type |-> "SellItem", arg |-> [index |-> index, shop_id |-> shop_id]]
    /\ Resolve

ShopDirs == {"E", "S"}
NextShop ==
    \/ \E dir \in ShopDirs : ResolveMove(dir)
    \/ ApplyStatus(PLAYER_ID, "Blinded")
    \/ \E item_idx \in ItemIdxs : ResolveUseItem(item_idx)
    \/ \E item_idx \in ItemIdxs : ResolveDropItem(item_idx)
    \/ \E item_idx \in ItemIdxs : ResolveEquipItem(item_idx)
    \/ \E slot \in WornSlots : ResolveUnequipSlot(slot)
    \/ \E index \in ShopIdxs : ResolveBuyItem(ShopkeeperId, index)
    \/ \E index \in ItemIdxs : ResolveSellItem(index, ShopkeeperId)

SpecShop == InitShop /\ [][NextShop]_vars

\* a session in the room with the door
InitDoor ==
    /\ world = DoorRoom
    /\ result = NoResult
    /\ action = NoAction
    /\ calls = 0

NextDoor ==
    \/ \E dir \in {DirNames[k] : k \in 1..8} : ResolveMove(dir)
    \/ ResolveWait

SpecDoor == InitDoor /\ [][NextDoor]_vars

\* ------------------------------------------------------ floor generation
\* dungeon::generate_floor works on a map of its own, before any World
\* holds it: tiles, the blocked cache and the room list.
GenW == 10
GenH == 6
GenSize == GenW * GenH
SecretWall == "SecretWall"
SearchRadius == 20
map_center == <<40, 25>>
RollTypes == {"Treasure", "Shrine", "Library", "Armory", "Normal"}

gen_in_bounds(x, y) == x >= 0 /\ y >= 0 /\ x < GenW /\ y < GenH
gen_get_tile(m, x, y) == IF ~gen_in_bounds(x, y) THEN Wall ELSE m.tiles[y * GenW + x]
gen_set_tile(m, x, y, t) ==
    IF gen_in_bounds(x, y) THEN [m EXCEPT !.tiles[y * GenW + x] = t] ELSE m
gen_refresh_blocked(m) ==
    [m EXCEPT !.blocked = [i \in 0..(GenSize - 1) |-> ~tile_is_walkable(m.tiles[i])]]

Room_new(x, y, width, height) ==
    [x |-> x, y |-> y, width |-> width, height |-> height, room_type |-> "Normal"]
center(room) == <<room.x + room.width \div 2, room.y + room.height \div 2>>
\* Position::distance_to is the square root of this; the code only compares
\* distances, and the root keeps their order.
distance_sq(a, b) == (a[1] - b[1]) * (a[1] - b[1]) + (a[2] - b[2]) * (a[2] - b[2])

\* carve_room: the inside of the rectangle becomes Floor, its rim stays rock
in_carved(room, x, y) ==
    /\ x >= room.x + 1 /\ x < room.x + room.width - 1
    /\ y >= room.y + 1 /\ y < room.y + room.height - 1

\* What a generator hands to generate_floor: Map::new, every room carved,
\* the room list stored, refresh_blocked.
generated_map(rooms) ==
    gen_refresh_blocked(
        [tiles |-> [i \in 0..(GenSize - 1) |->
                      IF \E k \in 1..Len(rooms) : in_carved(rooms[k], i % GenW, i \div GenW)
                      THEN Floor ELSE Wall],
         blocked |-> [i \in 0..(GenSize - 1) |-> FALSE],
         rooms |-> rooms])

\* The other rooms from the furthest to the nearest of the start room; the
\* sort is stable, so rooms equally far keep their order in the list.
by_distance(rooms, start_idx) ==
    LET others == (1..Len(rooms)) \ {start_idx}
        d(i) == distance_sq(center(rooms[i]), center(rooms[start_idx]))
        before(i, j) == d(i) > d(j) \/ (d(i) = d(j) /\ i < j)
    IN [k \in 1..Cardinality(others) |->
          CHOOSE i \in others : Cardinality({j \in others : before(j, i)}) = k - 1]

\* assign_room_types: the room nearest the centre of the full-size map is the
\* start room (the first of several equally near); on a boss floor the
\* second furthest room is the boss room; each other room past the furthest
\* rolls its type.  Every outcome of the rolls.
assign_room_types(rooms, is_boss_floor) ==
    IF Len(rooms) = 0 THEN {rooms}
    ELSE
        LET n == Len(rooms)
            dc(i) == distance_sq(center(rooms[i]), map_center)
            start_idx == CHOOSE i \in 1..n :
                             \A j \in 1..n : dc(i) < dc(j) \/ (dc(i) = dc(j) /\ i <= j)
            bd == by_distance(rooms, start_idx)
            boss_idx == IF is_boss_floor /\ Len(bd) >= 2 THEN bd[2] ELSE 0
            typed == [i \in 1..n |->
                        [rooms[i] EXCEPT !.room_type =
                            IF i = start_idx THEN "Start"
                            ELSE IF i = boss_idx THEN "Boss" ELSE "Normal"]]
            skip == IF is_boss_floor THEN 2 ELSE 1
            rolled == {bd[k] : k \in (skip + 1)..Len(bd)}
        IN {[i \in 1..n |-> IF i \in rolled /\ typed[i].room_type = "Normal"
                              THEN [typed[i] EXCEPT !.room_type = roll[i]]
                              ELSE typed[i]] : roll \in [rolled -> RollTypes]}

\* get_stairs_room_idx: the room furthest from the start room, the last of
\* several equally far; None without a start room or without another room.
get_stairs_room_idx(rooms) ==
    LET starts == {i \in 1..Len(rooms) : rooms[i].room_type = "Start"}
    IN IF starts = {} THEN None
       ELSE
           LET start_idx == CHOOSE i \in starts : \A j \in starts : i <= j
               others == (1..Len(rooms)) \ {start_idx}
               d(i) == distance_sq(center(rooms[i]), center(rooms[start_idx]))
           IN IF others = {} THEN None
              ELSE Some(CHOOSE i \in others :
                            \A j \in others : d(i) > d(j) \/ (d(i) = d(j) /\ i >= j))

\* find_nearest_floor, were it to stop at any tile one can walk on
find_nearest_walkable(m, start) ==
    IF gen_in_bounds(start[1], start[2]) /\ tile_is_walkable(gen_get_tile(m, start[1], start[2]))
    THEN start
    ELSE
        LET found == {p \in (0..(GenW - 1)) \X (0..(GenH - 1)) :
                          /\ tile_is_walkable(gen_get_tile(m, p[1], p[2]))
                          /\ chebyshev_distance(p, start) \in 1..(SearchRadius - 1)}
            met_before(p, q) ==
                \/ chebyshev_distance(p, start) < chebyshev_distance(q, start)
                \/ /\ chebyshev_distance(p, start) = chebyshev_distance(q, start)
                   /\ (p[2] < q[2] \/ (p[2] = q[2] /\ p[1] < q[1]))
        IN IF found = {} THEN start
           ELSE CHOOSE p \in found : \A q \in found \ {p} : met_before(p, q)

\* find_nearest_floor: the position itself when it is Floor, else the first
\* Floor tile met on the rings of radius 1, 2, ... read row by row, else the
\* position itself.
find_nearest_floor(m, start) ==
    IF gen_in_bounds(start[1], start[2]) /\ gen_get_tile(m, start[1], start[2]) = Floor
    THEN start
    ELSE
        LET found == {p \in (0..(GenW - 1)) \X (0..(GenH - 1)) :
                          /\ gen_get_tile(m, p[1], p[2]) = Floor
                          /\ chebyshev_distance(p, start) \in 1..(SearchRadius - 1)}
            met_before(p, q) ==
                \/ chebyshev_distance(p, start) < chebyshev_distance(q, start)
                \/ /\ chebyshev_distance(p, start) = chebyshev_distance(q, start)
                   /\ (p[2] < q[2] \/ (p[2] = q[2] /\ p[1] < q[1]))
        IN IF found = {} THEN start
           ELSE CHOOSE p \in found : \A q \in found \ {p} : met_before(p, q)

\* The four walls in every order the shuffle can leave them in
\* (0 north, 1 south, 2 west, 3 east).
Shuffles == {dirs \in [1..4 -> 0..3] : \A a, b \in 1..4 : dirs[a] = dirs[b] => a = b}
wall_span(room, dir) ==
    IF dir \in {0, 1} THEN Max(room.width - 2, 1) ELSE Max(room.height - 2, 1)
\* <<secret_x, secret_y, connect_x, connect_y>> for a wall and a drawn offset
secret_site(room, dir, off) ==
    CASE dir = 0 -> <<room.x + off, room.y - 4, room.x + 1 + off, room.y - 1>>
      [] dir = 1 -> <<room.x + off, room.y + room.height + 1,
                      room.x + 1 + off, room.y + room.height>>
      [] dir = 2 -> <<room.x - 4, room.y + off, room.x - 1, room.y + 1 + off>>
      [] OTHER   -> <<room.x + room.width + 1, room.y + off,
                      room.x + room.width, room.y + 1 + off>>

secret_fits(m, s) ==
    /\ ~(s[1] < 1 \/ s[2] < 1 \/ s[1] + 3 >= GenW - 1 \/ s[2] + 3 >= GenH - 1)
    /\ \A dx, dy \in 0..2 : gen_get_tile(m, s[1] + dx, s[2] + dy) = Wall
    /\ gen_get_tile(m, s[3], s[4]) = Wall

carve_secret(m, s) ==
    gen_refresh_blocked(
        [m EXCEPT !.tiles = [i \in 0..(GenSize - 1) |->
                                IF i = s[4] * GenW + s[3] THEN SecretWall
                                ELSE IF /\ i % GenW \in s[1]..(s[1] + 2)
                                        /\ i \div GenW \in s[2]..(s[2] + 2)
                                     THEN Floor ELSE m.tiles[i]],
                  !.rooms = Append(m.rooms,
                                   [Room_new(s[1], s[2], 3, 3) EXCEPT !.room_type = "Treasure"])])

RECURSIVE try_walls(_, _, _, _, _)
try_walls(m, room, dirs, offs, k) ==
    IF k > Len(dirs) THEN m
    ELSE IF secret_fits(m, secret_site(room, dirs[k], offs[k]))
         THEN carve_secret(m, secret_site(room, dirs[k], offs[k]))
         ELSE try_walls(m, room, dirs, offs, k + 1)

\* carve_secret_room: a 3x3 chamber behind a wall of a Normal room, on the
\* first wall of the shuffle that has the room for it.  Every outcome of the
\* draws (the room, the shuffle, the offset along each wall tried).
carve_secret_room(m) ==
    LET normal_indices == {i \in 1..Len(m.rooms) : m.rooms[i].room_type = "Normal"}
    IN IF normal_indices = {} THEN {m}
       ELSE UNION {
              UNION {
                {try_walls(m, m.rooms[i], dirs, offs, 1) :
                    offs \in {o \in [1..4 -> 0..(Max(wall_span(m.rooms[i], 0), wall_span(m.rooms[i], 2)) - 1)] :
                                \A k \in 1..4 : o[k] < wall_span(m.rooms[i], dirs[k])}}
                : dirs \in Shuffles}
              : i \in normal_indices}

\* generate_floor, from the stairs on: the down stairs near the centre of the
\* furthest room, and on floors past the first the up stairs beside the
\* centre of the start room.
generate_stairs(m, floor) ==
    With(IF IsSome(get_stairs_room_idx(m.rooms))
         THEN With(find_nearest_floor(m, center(m.rooms[Unwrap(get_stairs_room_idx(m.rooms))])),
                   LAMBDA pos : gen_set_tile(m, pos[1], pos[2], DownStairs))
         ELSE m,
         LAMBDA md :
           IF floor > 1 /\ \E i \in 1..Len(md.rooms) : md.rooms[i].room_type = "Start"
           THEN With(center(md.rooms[CHOOSE i \in 1..Len(md.rooms) :
                                        /\ md.rooms[i].room_type = "Start"
                                        /\ \A j \in 1..(i - 1) : md.rooms[j].room_type # "Start"]),
                     LAMBDA c :
                       With(find_nearest_floor(md, <<c[1] + 1, c[2]>>),
                            LAMBDA up_pos :
                              IF gen_get_tile(md, up_pos[1], up_pos[2]) # DownStairs
                              THEN gen_set_tile(md, up_pos[1], up_pos[2], UpStairs)
                              ELSE md))
           ELSE md)

is_boss_floor(floor) == floor \in {3, 6, 10} \/ (floor > 10 /\ floor % 5 = 0)

\* generate_floor on the map its generator made: room types, on half of the
\* floors without a boss a secret room, then the stairs.  Every outcome.
generate_floor(m, floor) ==
    Bind(assign_room_types(m.rooms, is_boss_floor(floor)),
         LAMBDA rooms :
           Bind(IF is_boss_floor(floor) THEN {[m EXCEPT !.rooms = rooms]}
                ELSE {[m EXCEPT !.rooms = rooms]}
                         \cup carve_secret_room([m EXCEPT !.rooms = rooms]),
                LAMBDA c : {generate_stairs(c, floor)}))

\* the rooms of the small maps: rectangles with one tile of floor inside
MaxRooms == 3
GenFloors == {1, 2, 3}
GenRooms ==
    {Room_new(0, 1, 3, 3), Room_new(1, 1, 3, 3), Room_new(1, 2, 3, 3),
     Room_new(5, 1, 3, 3), Room_new(5, 2, 3, 3)}
RoomLists == UNION {[1..n -> GenRooms] : n \in 2..MaxRooms}

\* a floor about to be generated
InitFloor ==
    /\ \E rooms \in RoomLists, floor \in GenFloors :
          world = [floor |-> floor, map |-> generated_map(rooms)]
    /\ result = NoResult
    /\ action = NoAction
    /\ calls = 0

GenerateFloor ==
    /\ action.type = "None"
    /\ \E m \in generate_floor(world.map, world.floor) : world' = [world EXCEPT !.map = m]
    /\ action' = [type |-> "GenerateFloor", arg |-> world.floor]
    /\ UNCHANGED <<result, calls>>

NextFloor == GenerateFloor

SpecFloor == InitFloor /\ [][NextFloor]_vars

\* ------------------------------------------------------------------ host
\* commands.rs: the AppState holds the World (none before the first game)
\* and the database: the save slot, the run history, the high scores and
\* the achievements table.
ACHIEVEMENTS ==
    << [id |-> "reach_floor_5", name |-> "Delver", target |-> 5],
       [id |-> "reach_floor_10", name |-> "Deep Diver", target |-> 10],
       [id |-> "reach_floor_20", name |-> "Abyssal Explorer", target |-> 20],
       [id |-> "kill_50", name |-> "Warrior", target |-> 50],
       [id |-> "kill_100", name |-> "Veteran", target |-> 100],
       [id |-> "kill_500", name |-> "Legend", target |-> 500],
       [id |-> "kill_boss_1", name |-> "Boss Slayer I", target |-> 1],
       [id |-> "kill_boss_2", name |-> "Boss Slayer II", target |-> 1],
       [id |-> "kill_boss_3", name |-> "Boss Slayer III", target |-> 1],
       [id |-> "collect_100_gold", name |-> "Moneybags", target |-> 100],
       [id |-> "collect_500_gold", name |-> "Hoarder", target |-> 500],
       [id |-> "buy_from_shop", name |-> "Customer", target |-> 1],
       [id |-> "equip_all_slots", name |-> "Fully Equipped", target |-> 1],
       [id |-> "win_game", name |-> "Champion", target |-> 1],
       [id |-> "win_fast", name |-> "Speedrunner", target |-> 1],
       [id |-> "reach_level_10", name |-> "Seasoned", target |-> 10],
       [id |-> "endless_floor_15", name |-> "Endless Wanderer", target |-> 15],
       [id |-> "die_floor_1", name |-> "Oops", target |-> 1],
       [id |-> "smash_20_barrels", name |-> "Barrel Smasher", target |-> 20],
       [id |-> "use_10_fountains", name |-> "Fountain Drinker", target |-> 10],
       [id |-> "die_to_trap", name |-> "Watch Your Step", target |-> 1] >>
AchievementIds == {ACHIEVEMENTS[k].id : k \in 1..Len(ACHIEVEMENTS)}

\* A row of the achievements table; a missing row reads as progress 0,
\* not unlocked.
NoRow == [present |-> FALSE, progress |-> 0, unlocked |-> FALSE]
\* an is_unlocked that finds no row unlocked
is_unlocked_never(conn, id) == FALSE
is_unlocked(conn, id) == conn.achievements[id].present /\ conn.achievements[id].unlocked
get_progress(conn, id) == IF conn.achievements[id].present THEN conn.achievements[id].progress ELSE 0

\* INSERT ... ON CONFLICT(id) DO UPDATE SET progress WHERE unlocked = 0
set_progress(conn, id, progress) ==
    IF ~conn.achievements[id].present
    THEN [conn EXCEPT !.achievements[id] =
             [present |-> TRUE, progress |-> progress, unlocked |-> FALSE]]
    ELSE IF ~conn.achievements[id].unlocked
         THEN [conn EXCEPT !.achievements[id].progress = progress]
         ELSE conn

\* INSERT ... ON CONFLICT(id) DO UPDATE SET unlocked = 1
unlock(conn, id) ==
    IF ~conn.achievements[id].present
    THEN [conn EXCEPT !.achievements[id] =
             [present |-> TRUE, progress |-> get_progress(conn, id), unlocked |-> TRUE]]
    ELSE [conn EXCEPT !.achievements[id].unlocked = TRUE]

\* the damage sources whose text holds "trap", "spike" or "poison"
TrapSources == {"Succumbed to poison", "Killed by a spike trap", "Killed by a poison trap"}

compute_progress(def, w, events, conn) ==
    LET count(type) == Cardinality({k \in 1..Len(events) : events[k].type = type})
        boss(floor) == \E k \in 1..Len(events) :
                          events[k].type = "BossDefeated" /\ events[k].amount = floor
        once(cond) == IF cond THEN 1 ELSE get_progress(conn, def.id)
    IN CASE def.id \in {"reach_floor_5", "reach_floor_10", "reach_floor_20"} -> w.floor
         [] def.id = "endless_floor_15" -> IF w.floor > 10 THEN w.floor ELSE 0
         [] def.id \in {"kill_50", "kill_100", "kill_500"} ->
              get_progress(conn, def.id)
                + Cardinality({k \in 1..Len(events) :
                                  events[k].type = "Attacked" /\ events[k].flag})
         [] def.id = "kill_boss_1" -> once(boss(3))
         [] def.id = "kill_boss_2" -> once(boss(6))
         [] def.id = "kill_boss_3" -> once(boss(10))
         [] def.id \in {"collect_100_gold", "collect_500_gold"} -> w.gold
         [] def.id = "buy_from_shop" -> once(count("ItemBought") > 0)
         [] def.id = "equip_all_slots" ->
              IF has_entity(w, PLAYER_ID) /\ IsSome(player_of(w).equipment)
                 /\ \A k \in 1..Len(EquipSlots) :
                       IsSome(Unwrap(player_of(w).equipment)[EquipSlots[k]])
              THEN 1 ELSE 0
         [] def.id = "win_game" -> once(w.victory)
         [] def.id = "win_fast" -> once(w.victory /\ w.turn < 500)
         [] def.id = "reach_level_10" -> w.player_level
         [] def.id = "die_floor_1" -> once(w.game_over /\ ~w.victory /\ w.floor = 1)
         [] def.id = "smash_20_barrels" -> get_progress(conn, def.id) + count("BarrelSmashed")
         [] def.id = "use_10_fountains" -> get_progress(conn, def.id) + count("FountainUsed")
         [] def.id = "die_to_trap" ->
              once(w.game_over /\ ~w.victory /\ IsSome(w.last_damage_source)
                   /\ Unwrap(w.last_damage_source) \in TrapSources)
         [] OTHER -> 0

\* achievements::check_achievements from the k-th definition on: the
\* database and the names newly unlocked
RECURSIVE check_achievements_from(_, _, _, _, _)
check_achievements_from(w, events, conn, newly_unlocked, k) ==
    IF k > Len(ACHIEVEMENTS) THEN [db |-> conn, newly_unlocked |-> newly_unlocked]
    ELSE IF is_unlocked(conn, ACHIEVEMENTS[k].id)
         THEN check_achievements_from(w, events, conn, newly_unlocked, k + 1)
         ELSE With(compute_progress(ACHIEVEMENTS[k], w, events, conn),
                   LAMBDA progress :
                     IF progress >= ACHIEVEMENTS[k].target
                     THEN check_achievements_from(
                              w, events,
                              unlock(set_progress(conn, ACHIEVEMENTS[k].id, progress),
                                     ACHIEVEMENTS[k].id),
                              Append(newly_unlocked, ACHIEVEMENTS[k].name), k + 1)
                     ELSE check_achievements_from(
                              w, events, set_progress(conn, ACHIEVEMENTS[k].id, progress),
                              newly_unlocked, k + 1))
check_achievements(w, events, conn) == check_achievements_from(w, events, conn, <<>>, 1)

AchievementUnlocked(name) ==
    [type |-> "AchievementUnlocked", entity_id |-> NoId, target_id |-> NoId,
     amount |-> 0, flag |-> FALSE, name |-> name]

\* save::save_world: INSERT OR REPLACE of the one row of save_state
save_world(conn, w) == [conn EXCEPT !.save_state = Some(w)]
delete_save(conn) == [conn EXCEPT !.save_state = None]

\* database::record_run: a row of runs, a row of high_scores, and the high
\* scores cut to the ten best (ORDER BY score DESC LIMIT 10)
HighScoreLimit == 10
RECURSIVE insert_by_score(_, _, _)
insert_by_score(rows, row, k) ==
    IF k > Len(rows) THEN Append(rows, row)
    ELSE IF rows[k].score < row.score
         THEN SubSeq(rows, 1, k - 1) \o <<row>> \o SubSeq(rows, k, Len(rows))
         ELSE insert_by_score(rows, row, k + 1)
record_run(conn, run) ==
    [conn EXCEPT !.runs = Append(@, run),
                 !.high_scores =
                     With(insert_by_score(@, [score |-> run.score,
                                              floor_reached |-> run.floor_reached,
                                              victory |-> run.victory], 1),
                          LAMBDA rows : SubSeq(rows, 1, Min(Len(rows), HighScoreLimit)))]

\* an end_run that records the run and leaves the save where it is
end_run_keeping_save(conn, w) ==
    record_run(conn,
            [floor_reached |-> w.floor, enemies_killed |-> w.enemies_killed,
             bosses_killed |-> w.bosses_killed, level_reached |-> w.player_level,
             turns_taken |-> w.turn,
             score |-> w.floor * 100 + w.enemies_killed * 10 + w.bosses_killed * 500
                         + w.player_level * 50 + (IF w.victory THEN 5000 ELSE 0),
             cause_of_death |-> IF w.victory THEN None ELSE Some("Slain in the dungeon"),
             victory |-> w.victory])

\* save::end_run: the score of the run, its row, and the save deleted
end_run(conn, w) ==
    delete_save(
        record_run(conn,
            [floor_reached |-> w.floor, enemies_killed |-> w.enemies_killed,
             bosses_killed |-> w.bosses_killed, level_reached |-> w.player_level,
             turns_taken |-> w.turn,
             score |-> w.floor * 100 + w.enemies_killed * 10 + w.bosses_killed * 500
                         + w.player_level * 50 + (IF w.victory THEN 5000 ELSE 0),
             cause_of_death |-> IF w.victory THEN None ELSE Some("Slain in the dungeon"),
             victory |-> w.victory]))

\* commands::player_action after its resolve_turn has returned r: the
\* achievements, the auto-save of every tenth turn, the end of the run
AutoSaveEvery == 10
after_turn(app, r) ==
    With(check_achievements(r.w, r.ev, app.db),
         LAMBDA checked :
           [app |-> [app EXCEPT
                       !.world = Some(r.w),
                       !.db = With(IF r.w.turn % AutoSaveEvery = 0 /\ ~r.w.game_over
                                   THEN save_world(checked.db, r.w) ELSE checked.db,
                                   LAMBDA conn : IF r.w.game_over THEN end_run(conn, r.w)
                                                 ELSE conn)],
            result |-> [ev |-> r.ev \o [k \in 1..Len(checked.newly_unlocked) |->
                                          AchievementUnlocked(checked.newly_unlocked[k])],
                        go |-> r.go]])

\* the database of a first start: init_schema and ensure_table
EmptyDb ==
    [save_state |-> None, runs |-> <<>>, high_scores |-> <<>>,
     achievements |-> [id \in AchievementIds |-> NoRow]]

\* a session of the host: a game in a boss room, loaded from its save
InitHost ==
    /\ \E w \in BossRooms :
          world = [world |-> Some(w), db |-> save_world(EmptyDb, w), loaded |-> None]
    /\ result = NoResult
    /\ action = NoAction
    /\ calls = 0

MaxHostCalls == 2
PlayerAction(type, arg) ==
    /\ calls < MaxHostCalls
    /\ IsSome(world.world)
    /\ action' = [type |-> type, arg |-> arg]
    /\ \E r \in resolve_turn(Unwrap(world.world), action') :
          /\ world' = after_turn(world, r).app
          /\ result' = after_turn(world, r).result
    /\ calls' = calls + 1

\* The counter of placement::next_id belongs to the process, not to the
\* World: a World that replaces the one in the AppState goes on from where
\* the counter stands.
next_id_of(app) == IF IsSome(app.world) THEN Unwrap(app.world).next_entity_id ELSE 1

\* commands::new_game
NewGame ==
    /\ calls < MaxHostCalls
    /\ action' = [type |-> "new_game", arg |-> ""]
    /\ world' = [world EXCEPT !.world = Some(World_new_from(next_id_of(world)))]
    /\ result' = NoResult
    /\ calls' = calls + 1

\* commands::save_game
SaveGame ==
    /\ IsSome(world.world)
    /\ action' = [type |-> "save_game", arg |-> ""]
    /\ IF Unwrap(world.world).game_over
       THEN /\ result' = [ev |-> <<>>, go |-> None, err |-> "Cannot save a finished game"]
            /\ UNCHANGED world
       ELSE /\ result' = NoResult
            /\ world' = [world EXCEPT !.db = save_world(@, Unwrap(world.world))]
    /\ UNCHANGED calls

\* commands::load_game, its first block: the save read under the database
\* lock, which is released before the world lock is asked for
LoadGameRead ==
    /\ world.loaded = None
    /\ action' = [type |-> "load_game", arg |-> "read"]
    /\ world' = [world EXCEPT !.loaded = Some(world.db.save_state)]
    /\ UNCHANGED <<result, calls>>

\* commands::load_game, its match: the loaded World stored under the world
\* lock, or Ok(None)
LoadGameStore ==
    /\ IsSome(world.loaded)
    /\ action' = [type |-> "load_game", arg |-> "store"]
    /\ world' = [world EXCEPT !.loaded = None,
                              !.world = IF IsSome(Unwrap(world.loaded))
                                        THEN Some([Unwrap(Unwrap(world.loaded)) EXCEPT
                                                      !.next_entity_id = next_id_of(world)])
                                        ELSE @]
    /\ result' = NoResult
    /\ UNCHANGED calls

NextHost ==
    \/ \E dir \in BossDirs : PlayerAction("Move", dir)
    \/ PlayerAction("Wait", "")
    \/ PlayerAction("UseStairs", "")
    \/ NewGame
    \/ SaveGame
    \/ LoadGameRead
    \/ LoadGameStore

SpecHost == InitHost /\ [][NextHost]_vars

\* --------------------------------------------------------------- claims
ResolveTypes ==
    {"Move", "Wait", "Interact", "LevelUpChoice", "UseItem", "UseStairs", "DropItem",
     "EquipItem", "UnequipSlot", "BuyItem", "SellItem"}

\* a step that is one call of resolve_turn
IsCall == calls' = calls + 1 /\ action'.type \in ResolveTypes

\* the state after a call of resolve_turn
AfterCall == calls > 0 /\ action.type \in ResolveTypes

HasEvent(evs, type, id) ==
    \E k \in 1..Len(evs) : evs[k].type = type /\ evs[k].entity_id = id

Enemies(w) == {acting_ids(w)[k] : k \in 1..Len(acting_ids(w))}

\* the tile next to the player in a direction is a wall with nobody on it
WallAhead(w, dir) ==
    LET t == apply_direction(player_of(w).position, dir) IN
    /\ in_bounds(t[1], t[2])
    /\ get_tile(w.map, t[1], t[2]) = Wall
    /\ ~IsSome(hostile_entity_at(w, t))
    /\ ~IsSome(shop_entity_at(w, t))

\* C1: with game_over and pending_level_up false, a Move whose target tile
\* is a wall leaves turn unchanged.
C1_WallMoveKeepsTurn ==
    [][(/\ IsCall
        /\ action'.type = "Move"
        /\ ~world.game_over
        /\ ~world.pending_level_up
        /\ WallAhead(world, action'.arg))
       => world'.turn = world.turn]_vars

\* a Move into a wall has been resolved and has cost a turn: the first call
\* of a new game, its message the last of the log, the player where the game
\* began and the turn counter at 1
C1_WallMoveCostsTurn ==
    /\ calls = 1
    /\ action.type = "Move"
    /\ world.floor = 1
    /\ world.turn = 1
    /\ world.messages.last = "You can't move there"
    /\ player_of(world).position = StartPos

\* C2: a call of resolve_turn made when game_over is true leaves the world as
\* it was, whatever the action, and returns no events.
C2_GameOverFrame ==
    [][(IsCall /\ world.game_over) => (world' = world /\ result'.ev = <<>>)]_vars

\* a call has been made on a finished game: the call that ends a game returns
\* its PlayerDied event, a later one returns nothing
C2_CalledAfterGameOver == AfterCall /\ world.game_over /\ result.ev = <<>>

\* C3: in the enemy phase of a turn an enemy with energy e and effective
\* speed s takes floor((e + s) / 100) slots of 100 energy each, and is left
\* with less than 100.
C3_SlotsByEnergy ==
    [][(IsCall /\ world'.turn = world.turn + 1 /\ ~world'.game_over)
       => \A id \in Enemies(world) :
            has_entity(world', id)
            => LET total == energy_of(world, id) + effective_speed(entity_of(world, id))
               IN /\ energy_of(world, id) - energy_of(world', id) + effective_speed(entity_of(world, id))
                       = ENERGY_THRESHOLD * (total \div ENERGY_THRESHOLD)
                  /\ energy_of(world', id) < ENERGY_THRESHOLD]_vars

\* an enemy phase has run on an enemy that came to it with two slots' worth
\* of energy
C3_TwoSlotsDue ==
    /\ AfterCall
    /\ ~world.game_over
    /\ \E id \in Enemies(world) : energy_of(world, id) >= ENERGY_THRESHOLD

\* C4: in a call of resolve_turn that leaves turn unchanged no enemy changes
\* position, no enemy deals damage and no entity's energy changes.
C4_NoEnemyActsOutOfTurn ==
    [][(IsCall /\ world'.turn = world.turn)
       => /\ world'.energy = world.energy
          /\ \A id \in Enemies(world) :
               /\ has_entity(world', id)
               /\ entity_of(world', id).position = entity_of(world, id).position
               /\ ~HasEvent(result'.ev, "Attacked", id)
               /\ ~HasEvent(result'.ev, "Moved", id)]_vars

\* the player has died on the spike trap, in a call that never reached the
\* turn counter, next to an enemy with the energy to act
C4_DiedBeforeEnemyPhase ==
    /\ AfterCall
    /\ world.game_over
    /\ world.last_damage_source = Some("Killed by a spike trap")
    /\ \E k \in 1..Len(result.ev) : result.ev[k].type = "PlayerDied"
    /\ \E id \in Enemies(world) :
         energy_of(world, id) + effective_speed(entity_of(world, id)) >= ENERGY_THRESHOLD

\* C5: every entity with a Health component has 0 <= current <= max.
C5_HealthInRange ==
    \A k \in 1..Len(world.entities) :
        IsSome(world.entities[k].health)
        => /\ 0 <= Unwrap(world.entities[k].health).current
           /\ Unwrap(world.entities[k].health).current <= Unwrap(world.entities[k].health).max

\* damage has taken an entity that is still in the world below 0
C5_NegativeHealth ==
    \E k \in 1..Len(world.entities) :
        /\ IsSome(world.entities[k].health)
        /\ Unwrap(world.entities[k].health).current < 0

\* C6: the status effects of an entity hold at most one effect of a type.
C6_OneEffectPerType ==
    \A k \in 1..Len(world.entities) :
        \A i, j \in 1..Len(world.entities[k].status_effects) :
            i # j => world.entities[k].status_effects[i].effect_type
                     # world.entities[k].status_effects[j].effect_type

\* the player carries two Poison effects
C6_TwoPoisons ==
    /\ has_entity(world, PLAYER_ID)
    /\ count_status(player_of(world), "Poison") >= 2

\* C7: with a level-up choice pending, a call of resolve_turn with any action
\* but LevelUpChoice changes nothing and returns no events.
C7_PendingIgnoresOtherActions ==
    [][(IsCall /\ world.pending_level_up /\ action'.type # "LevelUpChoice")
       => (world' = world /\ result'.ev = <<>>)]_vars

\* a call other than the choice has been made while the choice was pending:
\* the call that raised the level returned its events, this one none
C7_CalledWhilePending ==
    /\ AfterCall
    /\ action.type # "LevelUpChoice"
    /\ world.pending_level_up
    /\ ~world.game_over
    /\ result.ev = <<>>

\* the player after the stat change of a level-up choice
LevelUpStat(p, choice) ==
    CASE choice = "MaxHp" ->
           [p EXCEPT !.health = Some([current |-> Unwrap(p.health).current + 10,
                                      max |-> Unwrap(p.health).max + 10])]
      [] choice = "Attack" ->
           [p EXCEPT !.combat = Some([Unwrap(p.combat) EXCEPT !.base_attack = @ + 2])]
      [] choice = "Defense" ->
           [p EXCEPT !.combat = Some([Unwrap(p.combat) EXCEPT !.base_defense = @ + 2])]
      [] choice = "Speed" ->
           [p EXCEPT !.combat = Some([Unwrap(p.combat) EXCEPT !.base_speed = @ + 15])]

\* what a call with LevelUpChoice does when it applies the choice
LevelUpApplied ==
    /\ ~world'.pending_level_up
    /\ world'.turn = world.turn
    /\ world'.energy = world.energy
    /\ Len(world'.entities) = Len(world.entities)
    /\ \A k \in 1..Len(world.entities) :
         world'.entities[k] = IF world.entities[k].id = PLAYER_ID
                              THEN LevelUpStat(world.entities[k], action'.arg)
                              ELSE world.entities[k]
    /\ result'.ev = <<>>

\* C8 as amended: with a level-up choice pending in a game that is not over,
\* LevelUpChoice(c) applies exactly the stat change of c to the player, clears
\* pending_level_up, leaves turn unchanged, and lets no enemy act and no
\* status effect tick.
C8_LevelUpChoiceApplied ==
    [][(/\ IsCall
        /\ action'.type = "LevelUpChoice"
        /\ world.pending_level_up
        /\ ~world.game_over)
       => LevelUpApplied]_vars

\* C8 as claimed: with a level-up choice pending, LevelUpChoice(c) applies the
\* stat change, clears the flag and leaves turn unchanged.
C8_AsClaimed ==
    [][(IsCall /\ action'.type = "LevelUpChoice" /\ world.pending_level_up)
       => LevelUpApplied]_vars

\* a level-up choice has been applied beside a living enemy
C8_ChoiceApplied ==
    /\ AfterCall
    /\ action.type = "LevelUpChoice"
    /\ ~world.pending_level_up
    /\ ~world.game_over
    /\ world.player_level = 2
    /\ world.messages.last \in {"+10 Max HP!", "+2 Attack!", "+2 Defense!", "+15 Speed!"}
    /\ Enemies(world) # {}

\* C9: with game_over and pending_level_up false, resolve_turn(Wait) raises
\* turn by exactly 1.
C9_WaitAdvancesTurn ==
    [][(IsCall /\ action'.type = "Wait" /\ ~world.game_over /\ ~world.pending_level_up)
       => world'.turn = world.turn + 1]_vars

\* a Wait has been resolved in a game that was running: neither flag is ever
\* cleared by a Wait
C9_WaitResolved ==
    /\ AfterCall
    /\ action.type = "Wait"
    /\ ~world.game_over
    /\ ~world.pending_level_up

\* C10: an enemy that is Stunned when its slot comes up pays the 100 energy
\* and does nothing: its position is unchanged and no Attacked or Moved event
\* is its own.
C10_StunnedSlotSkipped ==
    [][(IsCall /\ world'.turn = world.turn + 1 /\ ~world'.game_over)
       => \A id \in Enemies(world) :
            (/\ is_stunned(entity_of(world, id))
             /\ has_entity(world', id)
             /\ energy_of(world, id) + effective_speed(entity_of(world, id)) >= ENERGY_THRESHOLD)
            => /\ energy_of(world', id)
                    = energy_of(world, id) + effective_speed(entity_of(world, id))
                      - ENERGY_THRESHOLD
               /\ entity_of(world', id).position = entity_of(world, id).position
               /\ ~HasEvent(result'.ev, "Attacked", id)
               /\ ~HasEvent(result'.ev, "Moved", id)]_vars

\* an enemy phase has passed over a stunned enemy: its Stunned effect has
\* ticked since it was applied
C10_StunnedThroughPhase ==
    /\ AfterCall
    /\ ~world.game_over
    /\ \E id \in Enemies(world) :
         \E k \in 1..Len(entity_of(world, id).status_effects) :
            /\ entity_of(world, id).status_effects[k].effect_type = "Stunned"
            /\ entity_of(world, id).status_effects[k].duration < ApplyDuration

\* ------------------------------------------------------- claims C11-C20
\* the number of events of a type, and of a type about an entity
CountType(evs, type) == Cardinality({k \in 1..Len(evs) : evs[k].type = type})
CountEvents(evs, type, id) ==
    Cardinality({k \in 1..Len(evs) : evs[k].type = type /\ evs[k].entity_id = id})

\* the sum of the amounts of the events chosen by S
RECURSIVE SumAmounts(_, _)
SumAmounts(evs, S) ==
    IF S = {} THEN 0
    ELSE LET k == CHOOSE j \in S : TRUE IN evs[k].amount + SumAmounts(evs, S \ {k})

\* a call that ran its status tick and left the game running
TickRan ==
    /\ IsCall
    /\ ~world.game_over
    /\ ~world.pending_level_up
    /\ ~world'.game_over

\* the effects one tick leaves of a list: each a turn shorter, the ones that
\* had one turn left gone
AfterTick(effects) ==
    LET dec == [k \in 1..Len(effects) |-> [effects[k] EXCEPT !.duration = @ - 1]]
        alive(x) == x.duration > 0
    IN SelectSeq(dec, alive)

\* C13: a tick phase leaves every effect an entity carried with a duration
\* d > 1 in place with duration d - 1, removes every effect with duration 1,
\* and emits one StatusExpired for the entity per effect removed; so an
\* effect applied with duration N is there for exactly N ticks and expires
\* with one event.
C13_EffectLastsItsDuration ==
    [][(TickRan /\ action'.type \in {"Move", "Wait"})
       => \A k \in 1..Len(world.entities) :
            LET id == world.entities[k].id
                old == world.entities[k].status_effects
                kept == AfterTick(old)
            IN has_entity(world', id)
               => /\ Len(entity_of(world', id).status_effects) >= Len(kept)
                  /\ SubSeq(entity_of(world', id).status_effects, 1, Len(kept)) = kept
                  /\ CountEvents(result'.ev, "StatusExpired", id) = Len(old) - Len(kept)]_vars

\* an effect applied to the player with duration ApplyDuration has run out
\* at the tick of the ApplyDuration-th call after it
C13_EffectExpired ==
    /\ AfterCall
    /\ calls = ApplyDuration + 1
    /\ ~world.game_over
    /\ CountEvents(result.ev, "StatusExpired", PLAYER_ID) = 1
    /\ player_of(world).status_effects = <<>>

\* the traps of a world, and the ones a step triggers
Traps(w) == {w.entities[k].id : k \in {j \in 1..Len(w.entities) : IsSome(w.entities[j].trap)}}
Triggered(w, id) == Unwrap(entity_of(w, id).trap).triggered

\* the hit points the events of a call take from the player
PlayerLoss(evs) ==
    SumAmounts(evs, {k \in 1..Len(evs) :
                       \/ evs[k].type = "Attacked" /\ evs[k].target_id = PLAYER_ID
                       \/ evs[k].type = "DamageTaken" /\ evs[k].entity_id = PLAYER_ID
                       \/ evs[k].type = "TrapTriggered"})

\* C15: a trap that has triggered stays triggered; a call emits one
\* TrapTriggered per trap it triggers, at most one, and none when the player
\* enters the tile of a trap that has triggered; a Move takes from the
\* player exactly what its events report, the trap's damage among them only
\* in the call that triggers it.
C15_TrapTriggersOnce ==
    [][IsCall
       => LET flips == {id \in Traps(world) : ~Triggered(world, id) /\ Triggered(world', id)}
          IN /\ \A id \in Traps(world) :
                  has_entity(world', id) /\ (Triggered(world, id) => Triggered(world', id))
             /\ CountType(result'.ev, "TrapTriggered") = Cardinality(flips)
             /\ Cardinality(flips) <= 1
             /\ (/\ action'.type = "Move" /\ ~world.game_over /\ ~world.pending_level_up
                 /\ has_entity(world', PLAYER_ID))
                => Unwrap(player_of(world').health).current
                     = Unwrap(player_of(world).health).current - PlayerLoss(result'.ev)]_vars

\* the player has stepped back onto the spike trap that has triggered, and
\* the call reports no trap
C15_SteppedOnSprungTrap ==
    /\ AfterCall
    /\ action.type = "Move"
    /\ CountEvents(result.ev, "Moved", PLAYER_ID) = 1
    /\ has_entity(world, PLAYER_ID)
    /\ player_of(world).position = entity_of(world, SpikeId).position
    /\ Triggered(world, SpikeId)
    /\ CountType(result.ev, "TrapTriggered") = 0

\* the enemies the player kills in a call: the targets of its killing blows
Kills(evs) ==
    {evs[k].target_id : k \in {j \in 1..Len(evs) :
        evs[j].type = "Attacked" /\ evs[j].entity_id = PLAYER_ID /\ evs[j].flag}}

\* C17 as claimed: a call in which the player kills an entity with an AI
\* raises player_xp by exactly that entity's max HP.
C17_AsClaimed ==
    [][IsCall
       => \A id \in Kills(result'.ev) :
            (has_entity(world, id) /\ IsSome(entity_of(world, id).ai))
            => world'.player_xp
                 = world.player_xp + Unwrap(entity_of(world, id).health).max]_vars

\* a kill has raised the level: the XP of the kill was added and the
\* threshold of the level taken off
C17_KillLevelledUp ==
    /\ AfterCall
    /\ Kills(result.ev) # {}
    /\ CountType(result.ev, "LevelUp") = 1
    /\ world.pending_level_up
    /\ world.player_xp < XpPerLevel
    /\ has_entity(world, PLAYER_ID)

\* what C19 promises of a call that returns with the player dead
DeathReported ==
    /\ world.game_over
    /\ CountType(result.ev, "PlayerDied") = 1
    /\ IsSome(result.go)

\* C19: a call of resolve_turn made while game_over is false that returns
\* with the player's HP at or below 0 has set game_over, returns exactly one
\* PlayerDied and populates TurnResult.game_over.
C19_DeathReported ==
    [][(IsCall /\ ~world.game_over /\ is_player_dead(world'))
       => /\ world'.game_over
          /\ CountType(result'.ev, "PlayerDied") = 1
          /\ IsSome(result'.go)]_vars

\* C19 as claimed: whenever a call of resolve_turn returns with the player's
\* HP at or below 0, game_over is true, the events hold exactly one
\* PlayerDied and TurnResult.game_over is populated.
C19_AsClaimed == (AfterCall /\ is_player_dead(world)) => DeathReported

\* the player has died at the status tick of a call: the last damage of the
\* call is the player's own
C19_DiedAtTick ==
    /\ AfterCall
    /\ is_player_dead(world)
    /\ DeathReported
    /\ Len(result.ev) >= 2
    /\ result.ev[Len(result.ev) - 1].type = "DamageTaken"
    /\ result.ev[Len(result.ev) - 1].entity_id = PLAYER_ID

\* the effect of a type an entity carries
StatusOf(e, t) == e.status_effects[first_status(e.status_effects, t, 1)]

\* the item a UseItem names, where the player carries one there with an effect
UsedEffect(w, item_idx) ==
    LET items == Unwrap(player_of(w).inventory).items IN
    IF item_idx < Len(items) /\ IsSome(items[item_idx + 1].item)
    THEN Unwrap(items[item_idx + 1].item).effect ELSE None

\* a call that resolved the player's action in a running game
ActionRan == IsCall /\ ~world.game_over /\ ~world.pending_level_up

\* C11 as claimed: applying a status of a type the entity carries leaves
\* exactly one effect of the type, with the larger of the two durations and
\* the larger of the two magnitudes - through apply_status, through a potion
\* (whose call also ticks the effect once) and through a wand.
C11_AsClaimed ==
    [][/\ action'.type = "ApplyStatus"
          => \A id \in ApplyTargets :
               (/\ has_entity(world, id)
                /\ count_status(entity_of(world, id), action'.arg) = 1
                /\ entity_of(world', id) # entity_of(world, id))
               => /\ count_status(entity_of(world', id), action'.arg) = 1
                  /\ StatusOf(entity_of(world', id), action'.arg).duration
                       = Max(StatusOf(entity_of(world, id), action'.arg).duration, ApplyDuration)
                  /\ StatusOf(entity_of(world', id), action'.arg).magnitude
                       = Max(StatusOf(entity_of(world, id), action'.arg).magnitude,
                             ApplyMagnitude)
       /\ (/\ ActionRan /\ action'.type = "UseItem" /\ ~world'.game_over
           /\ IsSome(UsedEffect(world, action'.arg)))
          => LET effect == Unwrap(UsedEffect(world, action'.arg))
                 player == player_of(world)
                 target == entity_of(world, Unwrap(nearest_enemy(world)))
             IN /\ (/\ effect.kind = "ApplyStatus"
                    /\ count_status(player, effect.effect) = 1)
                   => /\ count_status(player_of(world'), effect.effect) = 1
                      /\ StatusOf(player_of(world'), effect.effect).duration
                           = Max(StatusOf(player, effect.effect).duration, effect.duration) - 1
                      /\ StatusOf(player_of(world'), effect.effect).magnitude
                           = Max(StatusOf(player, effect.effect).magnitude, 0)
                /\ (/\ effect.kind = "RangedAttack"
                    /\ IsSome(effect.status)
                    /\ IsSome(nearest_enemy(world))
                    /\ count_status(target, Unwrap(effect.status).effect) = 1
                    /\ has_entity(world', target.id))
                   => count_status(entity_of(world', target.id),
                                   Unwrap(effect.status).effect) = 1]_vars

\* the wand has hit the boss twice: the boss carries two Slowed effects
C11_TwoSlowed ==
    /\ AfterCall
    /\ action.type = "UseItem"
    /\ has_entity(world, BossId)
    /\ count_status(entity_of(world, BossId), "Slowed") = 2

\* C12: in every state, no entity whose AI is Boss (either phase) carries a
\* Stunned or a Confused effect.
C12_BossNeverStunned ==
    \A k \in 1..Len(world.entities) :
       is_boss(world.entities[k])
       => /\ ~has_status(world.entities[k], "Stunned")
          /\ ~has_status(world.entities[k], "Confused")

\* apply_status has been asked to stun or confuse a boss that the wand had
\* slowed: the effect is on nobody
C12_StunRefused ==
    /\ action.type = "ApplyStatus"
    /\ action.arg \in {"Stunned", "Confused"}
    /\ has_entity(world, PLAYER_ID)
    /\ ~has_status(player_of(world), action.arg)
    /\ has_entity(world, BossId)
    /\ is_boss(entity_of(world, BossId))
    /\ has_status(entity_of(world, BossId), "Slowed")

\* the blows that land on the player in the events of a call
HitsOnPlayer(evs) ==
    {k \in 1..Len(evs) : evs[k].type = "Attacked" /\ evs[k].target_id = PLAYER_ID}

C16_PhaseNeverReverts ==
    [][\A k \in 1..Len(world.entities) :
         (/\ world.entities[k].ai = Some("BossPhase2")
          /\ world'.floor = world.floor
          /\ has_entity(world', world.entities[k].id))
         => entity_of(world', world.entities[k].id).ai = Some("BossPhase2")]_vars

\* the boss is in its second phase with its hit points back at half or more
C16_RecoveredInPhase2 ==
    /\ AfterCall
    /\ has_entity(world, BossId)
    /\ entity_of(world, BossId).ai = Some("BossPhase2")
    /\ Unwrap(entity_of(world, BossId).health).current * 2
         >= Unwrap(entity_of(world, BossId).health).max
    /\ HasEvent(result.ev, "Attacked", PLAYER_ID)

\* C18 as claimed: a call in which the player kills a Boss on floor 10 sets
\* victory and game_over, returns a Victory event and populates
\* TurnResult.game_over with victory = true.
C18_AsClaimed ==
    [][(/\ ActionRan
        /\ world.floor = 10
        /\ \E k \in 1..Len(world.entities) :
              /\ is_boss(world.entities[k])
              /\ HasEvent(result'.ev, "BossDefeated", world.entities[k].id))
       => /\ world'.victory
          /\ world'.game_over
          /\ CountType(result'.ev, "Victory") = 1
          /\ IsSome(result'.go)
          /\ Unwrap(result'.go).victory]_vars

\* the call that killed the floor-10 boss has gone on to the player's death
C18_VictoryThenDeath ==
    /\ AfterCall
    /\ world.floor = 10
    /\ world.victory
    /\ world.game_over
    /\ CountType(result.ev, "Victory") = 1
    /\ CountType(result.ev, "PlayerDied") = 1
    /\ result.go = Some([victory |-> FALSE])

\* stairs down are under the player
OnStairs(w) ==
    \E k \in 1..Len(w.entities) :
       w.entities[k].position = player_of(w).position /\ w.entities[k].stair = Some("Down")

\* what a descent is to keep of the player
Persisting(w) ==
    [level |-> w.player_level, xp |-> w.player_xp, gold |-> w.gold,
     equipment |-> player_of(w).equipment, inventory |-> player_of(w).inventory]

\* C20: a UseStairs with stairs down under the player leaves the level, the
\* XP, the gold, the equipment slots, the status effects and the inventory
\* as they were: the descent step changes none of them, and the call returns
\* with them unchanged but for the one tick of the turn on the effects.
C20_DescentKeepsPlayer ==
    [][(ActionRan /\ action'.type = "UseStairs" /\ OnStairs(world))
       => LET descended == try_use_stairs([w |-> world, ev |-> <<>>]).w IN
          /\ descended.floor = world.floor + 1
          /\ Persisting(descended) = Persisting(world)
          /\ player_of(descended).status_effects = player_of(world).status_effects
          /\ world'.floor = world.floor + 1
          /\ has_entity(world', PLAYER_ID)
          /\ Persisting(world') = Persisting(world)
          /\ player_of(world').status_effects
               = AfterTick(player_of(world).status_effects)]_vars

\* the player has come down the stairs with its kit and an effect running
C20_DescendedWithKit ==
    /\ AfterCall
    /\ action.type = "UseStairs"
    /\ world.floor = 4
    /\ CountType(result.ev, "StairsDescended") = 1
    /\ Len(Unwrap(player_of(world).inventory).items) = 4
    /\ Unwrap(player_of(world).equipment).body = Some(MailId)
    /\ has_status(player_of(world), "Hasted")

\* ------------------------------------------------------- claims C21-C30
\* the ids of the entities of a world, and the ids a step took from the
\* counter of placement::next_id
Ids(w) == {w.entities[k].id : k \in 1..Len(w.entities)}
Allocated == world.next_entity_id .. (world'.next_entity_id - 1)
Spotted(evs) == {evs[k].entity_id : k \in {j \in 1..Len(evs) : evs[j].type = "EnemySpotted"}}

TwinOffset == World_new.next_entity_id - RatId
twin_id(id) == IF id = PLAYER_ID \/ id = NoId THEN id ELSE id + TwinOffset
twin_option(o) == IF IsSome(o) THEN Some(twin_id(Unwrap(o))) ELSE None
twin_item(e) == [e EXCEPT !.id = twin_id(@)]
twin_entity(e) ==
    [e EXCEPT
       !.id = twin_id(@),
       !.inventory = IF IsSome(@)
                     THEN Some([Unwrap(@) EXCEPT
                                  !.items = [k \in 1..Len(@) |-> twin_item(@[k])]])
                     ELSE None,
       !.equipment = IF IsSome(@)
                     THEN Some([slot \in DOMAIN Unwrap(@) |-> twin_option(Unwrap(@)[slot])])
                     ELSE None]
Twin(w) ==
    [w EXCEPT
       !.entities = [k \in 1..Len(@) |-> twin_entity(@[k])],
       !.energy = [id \in {twin_id(k) : k \in DOMAIN @} |->
                     @[CHOOSE k \in DOMAIN @ : twin_id(k) = id]],
       !.spotted_enemies = {twin_id(k) : k \in @},
       !.next_entity_id = @ + TwinOffset]
twin_event(e) == [e EXCEPT !.entity_id = twin_id(@), !.target_id = twin_id(@)]
twin_result(r) ==
    [r EXCEPT !.w = Twin(@), !.ev = [k \in 1..Len(@) |-> twin_event(@[k])]]

\* a world that World::new made in this process, and not load_world
MadeByNew(w) == w.next_entity_id >= World_new.next_entity_id

\* what the two worlds are compared by
Compared(w) ==
    [turn |-> w.turn, floor |-> w.floor,
     position |-> IF has_entity(w, PLAYER_ID) THEN Some(player_of(w).position) ELSE None,
     hp |-> IF has_entity(w, PLAYER_ID) THEN Some(Unwrap(player_of(w).health).current) ELSE None,
     enemies_killed |-> w.enemies_killed, gold |-> w.gold]

DanglingSlots(w) ==
    LET player == player_of(w) IN
    {slot \in DOMAIN Unwrap(player.equipment) :
        /\ IsSome(Unwrap(player.equipment)[slot])
        /\ ~IsSome(find_item(Unwrap(player.inventory).items,
                             Unwrap(Unwrap(player.equipment)[slot]), 1))}

\* C23: every slot of the player's equipment that is not empty holds the id
\* of an item of the player's inventory, in every state.
C23_AsClaimed == has_entity(world, PLAYER_ID) => DanglingSlots(world) = {}

\* C23: a game loaded in a new process, two items bought, and the second,
\* a potion that was given the id of the Chain Mail worn, drunk: the potion
\* and the Chain Mail have both left the inventory and the body slot still
\* holds their id.
C23_SlotWithoutItem ==
    /\ AfterCall /\ action.type = "UseItem"
    /\ CountType(result.ev, "ItemUsed") = 1
    /\ has_entity(world, PLAYER_ID)
    /\ DanglingSlots(world) = {"body"}
    /\ Unwrap(player_of(world).equipment).body = Some(MailId)
    /\ item_named(Unwrap(player_of(world).inventory).items, "Chain Mail", 1) = 0

\* the ids of the entity list and of every inventory, one for each holder
IdsHeld(w) ==
    {<<k, 0>> : k \in 1..Len(w.entities)}
    \cup {<<k, j>> \in (1..Len(w.entities)) \X (1..8) :
            /\ IsSome(w.entities[k].inventory)
            /\ j <= Len(Unwrap(w.entities[k].inventory).items)}
IdAt(w, h) ==
    IF h[2] = 0 THEN w.entities[h[1]].id
    ELSE Unwrap(w.entities[h[1]].inventory).items[h[2]].id

\* C24: no two entities of the entity list or of an inventory have the same
\* id, and only the player has id 0, in every state.
C24_AsClaimed ==
    /\ \A g, h \in IdsHeld(world) : g # h => IdAt(world, g) # IdAt(world, h)
    /\ \A h \in IdsHeld(world) : IdAt(world, h) = PLAYER_ID => h = <<1, 0>>

\* C24: a game loaded in a new process and taken down the stairs: the second
\* rat of the new floor has the id of the Chain Mail the player carries.
C24_IdTakenTwice ==
    /\ AfterCall /\ action.type = "UseStairs"
    /\ CountType(result.ev, "StairsDescended") = 1
    /\ \E k \in 1..Len(world.entities) :
          world.entities[k].id = MailId /\ world.entities[k].name = "Rat"
    /\ has_entity(world, PLAYER_ID)
    /\ IsSome(find_item(Unwrap(player_of(world).inventory).items, MailId, 1))

\* the blocking entities other than id that stand on pos
BlockersAt(w, pos, id) ==
    {k \in 1..Len(w.entities) :
        /\ w.entities[k].position = pos
        /\ w.entities[k].blocks_movement
        /\ w.entities[k].id # id}

\* the enemies of w that are on another tile in v, on the same floor
MovedEnemies(w, v) ==
    {id \in Enemies(w) : /\ v.floor = w.floor
                         /\ has_entity(v, id)
                         /\ entity_of(v, id).position # entity_of(w, id).position}

\* C25: an enemy that a call of resolve_turn leaves on another tile has made
\* a move of its own (a Moved event), the tile is walkable and no other
\* blocking entity stands on it; every other enemy is where it was.
C25_EnemyMovesOntoFreeTile ==
    [][IsCall
       => \A id \in MovedEnemies(world, world') :
             LET pos == entity_of(world', id).position IN
             /\ HasEvent(result'.ev, "Moved", id)
             /\ is_walkable(world'.map, pos[1], pos[2])
             /\ tile_is_walkable(get_tile(world'.map, pos[1], pos[2]))
             /\ BlockersAt(world', pos, id) = {}
             /\ chebyshev_distance(pos, entity_of(world, id).position) = 1]_vars

\* C25: a call in which one enemy moved and another, two tiles or more from
\* the player and not stunned, stayed on its tile because the step towards
\* the player is taken by a blocking entity.
C25_EnemyStayedBehind ==
    /\ AfterCall /\ has_entity(world, PLAYER_ID) /\ IsSome(world.dijkstra)
    /\ \E a, b \in Enemies(world) :
          /\ a # b
          /\ HasEvent(result.ev, "Moved", a)
          /\ ~HasEvent(result.ev, "Moved", b)
          /\ ~is_stunned(entity_of(world, b))
          /\ chebyshev_distance(entity_of(world, b).position, player_of(world).position) > 1
          /\ LET next == best_neighbor(Unwrap(world.dijkstra), entity_of(world, b).position,
                                       world.map)
             IN IsSome(next) /\ BlockersAt(world, Unwrap(next), b) # {}

\* the Passive entities of w that are alive in v with fewer hit points
DamagedPassives(w, v) ==
    {id \in Enemies(w) : /\ entity_of(w, id).ai = Some("Passive")
                         /\ v.floor = w.floor
                         /\ has_entity(v, id)
                         /\ Unwrap(entity_of(v, id).health).current
                              < Unwrap(entity_of(w, id).health).current}

\* C26: a Passive entity that a call of resolve_turn has damaged and left
\* alive has the Melee behaviour after the call.
C26_AsClaimed ==
    [][IsCall => \A id \in DamagedPassives(world, world') :
                    entity_of(world', id).ai = Some("Melee")]_vars

\* C26: the Wand of Ice used on a Mimic that was at its full hit points: the
\* Mimic has taken the damage of the wand and is Passive as before.
C26_ZappedAndStillPassive ==
    /\ AfterCall /\ action.type = "UseItem"
    /\ CountType(result.ev, "ItemUsed") = 1
    /\ CountEvents(result.ev, "DamageTaken", MimicId) = 1
    /\ has_entity(world, MimicId)
    /\ Unwrap(entity_of(world, MimicId).health).current < EnemyTemplates["Mimic"].hp
    /\ entity_of(world, MimicId).ai = Some("Passive")

SeenBeyond(w, r) ==
    {p \in Unwrap(player_of(w).fov).visible_tiles :
        chebyshev_distance(p, player_of(w).position) > r}

\* C29: after a call of resolve_turn that recomputed the field of view of a
\* Blinded player, the field of view holds no tile farther than 2 from it.
BlindedRadius == 2
C30_SpottedOncePerFloor ==
    [][IsCall
       => /\ \A id \in Spotted(result'.ev) : CountEvents(result'.ev, "EnemySpotted", id) = 1
          /\ world'.floor = world.floor
               => /\ Spotted(result'.ev) \cap world.spotted_enemies = {}
                  /\ world'.spotted_enemies = world.spotted_enemies \cup Spotted(result'.ev)
          /\ world'.floor # world.floor
               => world'.spotted_enemies = Spotted(result'.ev)]_vars

\* C30: the last call of a new game: both rats were reported in an earlier
\* call, one at least is alive in the player's field of view, and the call
\* has reported none.
C30_SeenAgainUnreported ==
    /\ AfterCall /\ calls = MaxCalls /\ MadeByNew(world)
    /\ has_entity(world, PLAYER_ID)
    /\ world.spotted_enemies = {RatId, Rat2Id}
    /\ \E id \in Enemies(world) :
          entity_of(world, id).position \in Unwrap(player_of(world).fov).visible_tiles
    /\ CountType(result.ev, "EnemySpotted") = 0

TilesOf(m, t) == {i \in 0..(GenSize - 1) : m.tiles[i] = t}
Generated == action.type = "GenerateFloor"

\* C28: the map generate_floor returns holds exactly one DownStairs tile,
\* and past the first floor exactly one UpStairs tile as well, on another
\* position than the DownStairs tile.
C28_OneStairsEachWay ==
    Generated =>
        /\ Cardinality(TilesOf(world.map, DownStairs)) = 1
        /\ world.floor > 1 =>
               /\ Cardinality(TilesOf(world.map, UpStairs)) = 1
               /\ TilesOf(world.map, UpStairs) \cap TilesOf(world.map, DownStairs) = {}

\* A floor past the first whose down stairs lie in the secret room carved
\* after the room types were given, and whose up stairs are not on the tile
\* beside the centre of the start room.
C28_StairsInSecretRoom ==
    /\ Generated
    /\ world.floor > 1
    /\ \E k \in 1..Len(world.map.rooms) :
          /\ world.map.rooms[k].room_type = "Treasure"
          /\ k = Len(world.map.rooms)
          /\ \E i \in TilesOf(world.map, SecretWall) : TRUE
          /\ gen_get_tile(world.map, center(world.map.rooms[k])[1],
                          center(world.map.rooms[k])[2]) = DownStairs
    /\ \E k \in 1..Len(world.map.rooms) :
          /\ world.map.rooms[k].room_type = "Start"
          /\ gen_get_tile(world.map, center(world.map.rooms[k])[1] + 1,
                          center(world.map.rooms[k])[2]) # UpStairs

\* ------------------------------------------------------------ cave floors
\* Floors 4 to 9 can be caves (cellular::generate_cellular).  The automaton
\* leaves one connected cave; identify_cave_rooms then cuts it into pieces
\* by a bounded flood fill and takes the bounding box of every piece that is
\* large enough as a "room".  The bound of the fill and the least size of a
\* piece are 100 and 20 on the full map; here they follow the size of the
\* small maps.
CaveRegionMax == 4
CaveMinRegion == 3

\* the cave on a small map: Floor on the tiles of F, Wall elsewhere
cave_map(F) ==
    gen_refresh_blocked(
        [tiles |-> [i \in 0..(GenSize - 1) |->
                      IF <<i % GenW, i \div GenW>> \in F THEN Floor ELSE Wall],
         blocked |-> [i \in 0..(GenSize - 1) |-> FALSE],
         rooms |-> <<>>])

\* cellular::flood_fill_bounded: breadth first from the start over Floor tiles
\* not yet visited, in the order south, north, east, west; the size of the
\* region is looked at once per tile taken from the queue.
FloodDirs == << <<0, 1>>, <<0, -1>>, <<1, 0>>, <<-1, 0>> >>
RECURSIVE flood_neighbors(_, _, _, _, _)
flood_neighbors(m, visited, pos, s, k) ==
    IF k > Len(FloodDirs) THEN s
    ELSE With(<<pos[1] + FloodDirs[k][1], pos[2] + FloodDirs[k][2]>>,
              LAMBDA n :
                flood_neighbors(m, visited, pos,
                    IF /\ gen_in_bounds(n[1], n[2])
                       /\ n \notin visited
                       /\ n \notin s.region
                       /\ gen_get_tile(m, n[1], n[2]) = Floor
                    THEN [region |-> s.region \cup {n}, queue |-> Append(s.queue, n)]
                    ELSE s,
                    k + 1))
RECURSIVE flood_loop(_, _, _, _)
flood_loop(m, visited, s, max_size) ==
    IF Len(s.queue) = 0 \/ Cardinality(s.region) >= max_size THEN s.region
    ELSE flood_loop(m, visited,
                    flood_neighbors(m, visited, s.queue[1],
                                    [s EXCEPT !.queue = Tail(@)], 1),
                    max_size)
flood_fill_bounded(m, start, visited, max_size) ==
    flood_loop(m, visited, [region |-> {start}, queue |-> <<start>>], max_size)

\* the bounding box of a region
bounding_room(region) ==
    LET xs == {p[1] : p \in region}
        ys == {p[2] : p \in region}
    IN Room_new(MinOf(xs), MinOf(ys),
                -MinOf({-x : x \in xs}) - MinOf(xs) + 1,
                -MinOf({-y : y \in ys}) - MinOf(ys) + 1)

\* the scan of identify_cave_rooms, row by row over the tiles inside the
\* border
RECURSIVE cave_scan(_, _, _, _)
cave_scan(m, i, visited, rooms) ==
    IF i >= GenSize THEN rooms
    ELSE IF /\ i % GenW \in 1..(GenW - 2)
            /\ i \div GenW \in 1..(GenH - 2)
            /\ <<i % GenW, i \div GenW>> \notin visited
            /\ m.tiles[i] = Floor
    THEN With(flood_fill_bounded(m, <<i % GenW, i \div GenW>>, visited, CaveRegionMax),
              LAMBDA region :
                cave_scan(m, i + 1, visited \cup region,
                          IF Cardinality(region) >= CaveMinRegion
                          THEN Append(rooms, bounding_room(region))
                          ELSE rooms))
    ELSE cave_scan(m, i + 1, visited, rooms)

\* cellular::find_nearest_floor: as dungeon::find_nearest_floor, with None
\* when no Floor tile is within reach
cave_find_nearest_floor(m, c) ==
    With(find_nearest_floor(m, c),
         LAMBDA p : IF gen_get_tile(m, p[1], p[2]) = Floor THEN Some(p) ELSE None)

\* cellular::create_grid_rooms: a 5x5 room around the Floor tile nearest the
\* centre of each section of a 3x3 grid
create_grid_rooms(m) ==
    LET cx(g) == ((g - 1) % 3) * (GenW \div 3) + (GenW \div 3) \div 2
        cy(g) == ((g - 1) \div 3) * (GenH \div 3) + (GenH \div 3) \div 2
        found(g) == IsSome(cave_find_nearest_floor(m, <<cx(g), cy(g)>>))
        gs == SelectSeq([g \in 1..9 |-> g], found)
    IN [k \in 1..Len(gs) |->
          With(Unwrap(cave_find_nearest_floor(m, <<cx(gs[k]), cy(gs[k])>>)),
               LAMBDA pos : Room_new(pos[1] - 2, pos[2] - 2, 5, 5))]

\* cellular::identify_cave_rooms
identify_cave_rooms(m) ==
    With(cave_scan(m, 0, {}, <<>>),
         LAMBDA rooms : IF Len(rooms) < 3 THEN create_grid_rooms(m) ELSE rooms)

\* placement::get_floor_positions: the Floor tiles in the rectangle of a room,
\* row by row
get_floor_positions(m, room) ==
    LET S == {p \in (room.x..(room.x + room.width - 1)) \X (room.y..(room.y + room.height - 1)) :
                 gen_in_bounds(p[1], p[2]) /\ gen_get_tile(m, p[1], p[2]) = Floor}
        before(p, q) == p[2] < q[2] \/ (p[2] = q[2] /\ p[1] < q[1])
    IN [k \in 1..Cardinality(S) |->
          CHOOSE p \in S : Cardinality({q \in S : before(q, p)}) = k - 1]

\* placement::pick_free_pos: free[rng.gen_range(0..free.len())]
pick_free_pos(positions, occupied, draw) ==
    LET is_free(p) == p \notin occupied
        free == SelectSeq(positions, is_free)
    IN IF Len(free) = 0 THEN None ELSE Some(free[(draw % Len(free)) + 1])

\* The draws of one call of spawn_entities.  Every draw of a kind has the
\* same value throughout the call: pick for an index or a kind, n for a
\* count out of 1..=3, coin for a comparison of a float with a chance.
PickDraws == 5
SpawnDraws == [pick : 0..(PickDraws - 1), n : 1..3, coin : BOOLEAN]

\* the entity spawn_entities makes of a kind: the enemy and the item are the
\* rows of the pools of the floor that the tables above hold
floor_entity(kind, id, pos, floor, d) ==
    CASE kind = "Enemy" -> create_enemy_from_template(id, "Mimic", pos)
      [] kind = "Item" -> create_item(id, "Chain Mail", pos)
      [] kind = "Shopkeeper" -> create_shopkeeper(id, pos, <<>>)
      [] kind = "Trap" ->
           CASE d.pick % 4 = 0 -> create_trap(id, pos, "Spike", 5 + floor, 0)
             [] d.pick % 4 = 1 -> create_trap(id, pos, "Poison", 2, 3)
             [] d.pick % 4 = 2 -> create_trap(id, pos, "Teleport", 0, 0)
             [] OTHER -> create_trap(id, pos, "Alarm", 0, 0)
      [] OTHER -> create_interactable(id, pos, kind)

\* n times: pick a free position among the positions, push the entity and
\* mark the position occupied; nothing when no position is free
RECURSIVE place_n(_, _, _, _, _, _, _)
place_n(acc, positions, kind, n, first, floor, d) ==
    IF n <= 0 THEN acc
    ELSE With(pick_free_pos(positions, acc.occupied, d.pick),
              LAMBDA pos :
                place_n(IF IsSome(pos)
                        THEN [entities |-> Append(acc.entities,
                                             floor_entity(kind, first + Len(acc.entities),
                                                          Unwrap(pos), floor, d)),
                              occupied |-> acc.occupied \cup {Unwrap(pos)}]
                        ELSE acc,
                        positions, kind, n - 1, first, floor, d))

\* the arm of spawn_entities for a room, on a floor past the first and
\* without a boss
spawn_room(acc, m, room, first, floor, d) ==
    LET positions == get_floor_positions(m, room)
        put(a, kind, n) == place_n(a, positions, kind, n, first, floor, d)
    IN IF Len(positions) = 0 THEN acc
       ELSE CASE room.room_type = "Treasure" ->
                   put(put(put(acc, "Chest", 1), "Item", d.n), "Enemy", 1)
              [] room.room_type \in {"Library", "Armory"} -> put(acc, "Item", Max(d.n, 2))
              [] room.room_type = "Shrine" ->
                   put(put(acc, IF d.coin THEN "Fountain" ELSE "Altar", 1), "Item", 1)
              [] room.room_type = "Shop" -> put(acc, "Shopkeeper", 1)
              [] room.room_type = "Normal" ->
                   put(put(put(acc, "Enemy", Min(floor \div 2 + d.n, Len(positions) \div 2)),
                           "Item", IF d.coin THEN 1 ELSE 0),
                       "Barrel", d.n - 1)
              [] OTHER -> acc

RECURSIVE spawn_rooms(_, _, _, _, _, _)
spawn_rooms(acc, m, k, first, floor, d) ==
    IF k > Len(m.rooms) THEN acc
    ELSE spawn_rooms(spawn_room(acc, m, m.rooms[k], first, floor, d), m, k + 1, first, floor, d)

\* placement::spawn_entities on a floor past the first and without a boss:
\* the rooms in their order, then the traps on the Floor tiles still free,
\* read column by column.  The player is no entity of this list and its
\* position is not in `occupied`.
spawn_floor_entities(m, first, floor, d) ==
    LET rooms_done == spawn_rooms([entities |-> <<>>, occupied |-> {}], m, 1, first, floor, d)
        S == {p \in (0..(GenW - 1)) \X (0..(GenH - 1)) :
                 gen_get_tile(m, p[1], p[2]) = Floor /\ p \notin rooms_done.occupied}
        before(p, q) == p[1] < q[1] \/ (p[1] = q[1] /\ p[2] < q[2])
        all_floor_positions ==
            [k \in 1..Cardinality(S) |->
               CHOOSE p \in S : Cardinality({q \in S : before(q, p)}) = k - 1]
    IN place_n(rooms_done, all_floor_positions, "Trap", d.n, first, floor, d).entities

\* state::place_stairs: an entity for every DownStairs tile, row by row
stairs_entities(m, first) ==
    LET S == {i \in 0..(GenSize - 1) : m.tiles[i] = DownStairs}
    IN [k \in 1..Cardinality(S) |->
          With(CHOOSE i \in S : Cardinality({j \in S : j < i}) = k - 1,
               LAMBDA i : create_stairs(first + k - 1, <<i % GenW, i \div GenW>>))]

\* World::try_use_stairs from generate_floor on, with the map the generator
\* made: the player goes to the centre of the start room, every other entity
\* is replaced by the entities of the new floor, then the stairs
enter_floor(w, m, d) ==
    LET starts == {k \in 1..Len(m.rooms) : m.rooms[k].room_type = "Start"}
        start_pos == IF starts = {} THEN <<1, 1>> ELSE center(m.rooms[MinOf(starts)])
        player == [w.entities[1] EXCEPT !.position = start_pos]
        first == w.next_entity_id
        spawned == spawn_floor_entities(m, first, w.floor + 1, d)
        stairs == stairs_entities(m, first + Len(spawned))
    IN [floor |-> w.floor + 1, map |-> m,
        entities |-> <<player>> \o spawned \o stairs,
        next_entity_id |-> first + Len(spawned) + Len(stairs)]

\* the caves the automaton has left, on the small maps
CaveA ==
    {<<1, 1>>, <<2, 1>>,
     <<1, 2>>, <<2, 2>>, <<3, 2>>, <<4, 2>>, <<5, 2>>,
     <<2, 3>>, <<4, 3>>,
     <<2, 4>>, <<3, 4>>, <<4, 4>>}
CaveB ==
    {<<4, 1>>,
     <<4, 2>>, <<5, 2>>, <<6, 2>>, <<7, 2>>, <<8, 2>>,
     <<4, 3>>, <<5, 3>>, <<7, 3>>,
     <<5, 4>>, <<6, 4>>, <<7, 4>>}
Caves == {CaveA, CaveB}

\* a cave floor with its stairs under the player, the floor above the
\* deepest cave floor of the model
CaveFloor == 5
cave_above(F) ==
    With(CHOOSE p \in F : \A q \in F : p[2] < q[2] \/ (p[2] = q[2] /\ p[1] <= q[1]),
         LAMBDA p :
           [floor |-> CaveFloor - 1,
            map |-> gen_set_tile(cave_map(F), p[1], p[2], DownStairs),
            entities |-> << spawn_player(p), create_stairs(1, p) >>,
            next_entity_id |-> 2])

InitCave ==
    /\ world \in {cave_above(F) : F \in Caves}
    /\ result = NoResult
    /\ action = NoAction
    /\ calls = 0

\* resolve_turn(UseStairs) as far as the new floor: with stairs down under
\* the player a cave is generated (room types, secret room and stairs as in
\* generate_floor) and entered; without, nothing changes
CaveUseStairs ==
    /\ calls < MaxCalls
    /\ action' = [type |-> "UseStairs", arg |-> ""]
    /\ calls' = calls + 1
    /\ IF \E k \in 1..Len(world.entities) :
             /\ world.entities[k].position = world.entities[1].position
             /\ world.entities[k].stair = Some("Down")
       THEN \E F \in Caves, d \in SpawnDraws :
               \E m \in generate_floor([cave_map(F) EXCEPT !.rooms = identify_cave_rooms(cave_map(F))],
                                       world.floor + 1) :
                  /\ world' = enter_floor(world, m, d)
                  /\ result' = [ev |-> <<Ev("StairsDescended", NoId, NoId, world.floor + 1, FALSE)>>,
                                go |-> None]
       ELSE /\ world' = world
            /\ result' = NoResult

NextCave == CaveUseStairs

SpecCave == InitCave /\ [][NextCave]_vars

\* ---------------------------------------------------------- endless mode
\* Past floor 10 the dungeon goes on: every fifth floor has a boss again
\* (enemies::get_boss_for_floor: the Goblin King on floor 30) and every
\* template is scaled up with the depth.

\* enemies::apply_endless_scaling: hit points, attack and defense times
\* 1.0 + (floor - 10) * 0.15, truncated; in hundredths.
apply_endless_scaling(template, floor) ==
    IF floor <= 10 THEN template
    ELSE [template EXCEPT
            !.hp = (@ * (100 + (floor - 10) * 15)) \div 100,
            !.attack = (@ * (100 + (floor - 10) * 15)) \div 100,
            !.defense = (@ * (100 + (floor - 10) * 15)) \div 100]

EndlessFloor == 30

\* the boss of a floor past the tenth, scaled, with hp hit points left
scaled_boss(name, hp, phase, floor) ==
    With(apply_endless_scaling(BossTemplates[name], floor),
         LAMBDA t :
           [create_enemy_from_template(BossId, name, BossPos) EXCEPT
               !.health = Some([current |-> hp, max |-> t.hp]),
               !.combat = Some([base_attack |-> t.attack, base_defense |-> t.defense,
                                base_speed |-> t.speed, crit_chance |-> t.crit_chance]),
               !.ai = Some(phase)])

\* the kit with a Wand of Fire in the place of the Wand of Ice
fire_kit_player(hp) ==
    With(kit_player(hp, <<>>),
         LAMBDA p :
           [p EXCEPT !.inventory =
              Some([Unwrap(@) EXCEPT !.items[4] = create_item(WandId, "Wand of Fire", StartPos)])])

\* floor 30: a player still on the first level, five XP short of the second,
\* who has gone down past every boss, beside the Goblin King of the floor,
\* worn down to its last hit points
EndlessHps == {1, 10}
EndlessRoom(hp) ==
    [boss_room(EndlessFloor, ArenaMap,
               << fire_kit_player(30), scaled_boss("Goblin King", hp, "BossPhase2", EndlessFloor) >>)
     EXCEPT !.player_xp = Carried.xp]

InitEndless ==
    /\ world \in {EndlessRoom(hp) : hp \in EndlessHps}
    /\ result = NoResult
    /\ action = NoAction
    /\ calls = 0

NextEndless ==
    \/ \E dir \in BossDirs : ResolveMove(dir)
    \/ ResolveWait
    \/ \E item_idx \in KitSlots : ResolveUseItem(item_idx)
    \/ \E choice \in LevelUpChoices : ResolveLevelUpChoice(choice)

SpecEndless == InitEndless /\ [][NextEndless]_vars

\* ------------------------------------------------------ AppState locks
\* commands.rs: AppState holds two std::sync::Mutex, world and db.  A command
\* is the sequence of lock and unlock steps its body performs (a guard is
\* released where it goes out of scope); the threads of the host run
\* commands concurrently.  In SpecLocks the variable world holds the two
\* mutex owners (0: free) and, per thread, the steps it has still to take.

NumThreads == 2
LockThreads == 1..NumThreads

\* load_game with the database guard kept until the end of the function.
load_game_holding_db ==
    { <<"db.lock", "db.unlock">>,
      <<"db.lock", "world.lock", "world.unlock", "db.unlock">> }

\* new_game: the world mutex for one assignment.
new_game_locks == { <<"world.lock", "world.unlock">> }

\* player_action: the world guard for the whole call (returned at once when
\* there is no game); under it the db guard for check_achievements, then
\* once more for the auto-save or for end_run (the two exclude each other).
player_action_locks ==
    { <<"world.lock", "world.unlock">>,
      <<"world.lock", "db.lock", "db.unlock", "world.unlock">>,
      <<"world.lock", "db.lock", "db.unlock", "db.lock", "db.unlock", "world.unlock">> }

\* save_game: the world guard, and under it the db guard unless the command
\* returns an error first; db is dropped first, being declared last.
save_game_locks ==
    { <<"world.lock", "world.unlock">>,
      <<"world.lock", "db.lock", "db.unlock", "world.unlock">> }

\* load_game: the db guard in a scope of its own, then, if a save was read,
\* the world mutex.
load_game_locks ==
    { <<"db.lock", "db.unlock">>,
      <<"db.lock", "db.unlock", "world.lock", "world.unlock">> }

\* get_game_state, inspect_entity, get_adjacent_shop: the world guard alone.
world_query_locks == { <<"world.lock", "world.unlock">> }

\* get_run_history, get_high_scores, get_settings, update_settings,
\* has_save_game, get_achievements, check_ollama: the db guard alone.
db_query_locks == { <<"db.lock", "db.unlock">> }

LockCommands ==
    {"new_game", "player_action", "save_game", "load_game", "world_query", "db_query"}

lock_steps(cmd) ==
    CASE cmd = "new_game" -> new_game_locks
      [] cmd = "player_action" -> player_action_locks
      [] cmd = "save_game" -> save_game_locks
      [] cmd = "load_game" -> load_game_locks
      [] cmd = "world_query" -> world_query_locks
      [] OTHER -> db_query_locks

Idle(app, t) == Len(app.todo[t]) = 0
NextStep(app, t) == app.todo[t][1]

\* Mutex::lock blocks while another thread owns the mutex.
CanStep(app, t) ==
    /\ ~Idle(app, t)
    /\ NextStep(app, t) = "world.lock" => app.world_lock = 0
    /\ NextStep(app, t) = "db.lock" => app.db_lock = 0

InitLocks ==
    /\ world = [todo |-> [t \in LockThreads |-> <<>>], world_lock |-> 0, db_lock |-> 0]
    /\ result = NoResult /\ action = NoAction /\ calls = 0

\* The host hands a command to an idle thread.
Invoke(t, cmd) ==
    /\ Idle(world, t)
    /\ \E steps \in lock_steps(cmd) : world' = [world EXCEPT !.todo[t] = steps]
    /\ action' = [type |-> cmd, arg |-> t]
    /\ UNCHANGED <<result, calls>>

LockStep(t) ==
    /\ CanStep(world, t)
    /\ world' =
         [world EXCEPT
            !.todo[t] = Tail(@),
            !.world_lock = CASE NextStep(world, t) = "world.lock" -> t
                             [] NextStep(world, t) = "world.unlock" -> 0
                             [] OTHER -> @,
            !.db_lock = CASE NextStep(world, t) = "db.lock" -> t
                          [] NextStep(world, t) = "db.unlock" -> 0
                          [] OTHER -> @]
    /\ action' = [type |-> NextStep(world, t), arg |-> t]
    /\ UNCHANGED <<result, calls>>

NextLocks ==
    \E t \in LockThreads :
        \/ \E cmd \in LockCommands : Invoke(t, cmd)
        \/ LockStep(t)

SpecLocks == InitLocks /\ [][NextLocks]_vars

\* --------------------------------------------------------- claims C31-C40
\* the entity try_interact would pick for the player of w
InteractTarget(w) ==
    interactive_at(w, <<player_of(w).position>> \o
                      [k \in 1..8 |-> apply_direction(player_of(w).position, DirNames[k])], 1)
UsedUp(w) ==
    {w.entities[k].id : k \in {j \in 1..Len(w.entities) :
        /\ IsSome(w.entities[j].interactive)
        /\ Unwrap(w.entities[j].interactive).uses_remaining = Some(0)}}
TargetUsedUp(w) ==
    /\ ~w.game_over /\ has_entity(w, PLAYER_ID)
    /\ IsSome(InteractTarget(w)) /\ Unwrap(InteractTarget(w)) \in UsedUp(w)

\* C31: an Interact on an interactable whose uses_remaining is 0 changes
\* nothing but the message log: the handler returns no event and the world
\* it was given, the turn reports no FountainUsed, ChestOpened or
\* AltarOffering and leaves the player's stats and inventory alone; and no
\* step takes an interactable out of uses_remaining = 0.
C31_UsedUpIsInert ==
    [][/\ UsedUp(world) \cap Ids(world') \subseteq UsedUp(world')
       /\ (IsCall /\ action'.type = "Interact" /\ TargetUsedUp(world))
            => /\ try_interact([w |-> world, ev |-> <<>>])
                    = {[w |-> push_message(world, "It's been used up"), ev |-> <<>>]}
               /\ CountType(result'.ev, "FountainUsed") = 0
               /\ CountType(result'.ev, "ChestOpened") = 0
               /\ CountType(result'.ev, "AltarOffering") = 0
               /\ has_entity(world', PLAYER_ID)
                    => /\ player_of(world').combat = player_of(world).combat
                       /\ player_of(world').inventory = player_of(world).inventory]_vars

\* C31: a call of Interact beside a fountain that an earlier call used: the
\* fountain is still there, used up, and the call reported nothing of it.
C31_DrankTwice ==
    /\ AfterCall /\ action.type = "Interact"
    /\ TargetUsedUp(world)
    /\ CountType(result.ev, "FountainUsed") = 0

UnlockedIds(conn) ==
    {id \in AchievementIds : conn.achievements[id].present /\ conn.achievements[id].unlocked}
ReportedNames(evs) ==
    {evs[k].name : k \in {j \in 1..Len(evs) : evs[j].type = "AchievementUnlocked"}}
NameOf(id) == (CHOOSE k \in 1..Len(ACHIEVEMENTS) : ACHIEVEMENTS[k].id = id)
ProgressValues == {0, 1, 600}
IsPlayerAction == calls' = calls + 1

\* C32: an unlocked achievement stays unlocked with the progress it has: no
\* step of the host changes its row, no call of player_action reports its
\* name again, and set_progress on its id leaves the database as it is.
C32_UnlockIsAbsorbing ==
    [][\A id \in UnlockedIds(world.db) :
          /\ world'.db.achievements[id] = world.db.achievements[id]
          /\ IsPlayerAction => ACHIEVEMENTS[NameOf(id)].name \notin ReportedNames(result'.ev)
          /\ \A progress \in ProgressValues :
                set_progress(world.db, id, progress) = world.db]_vars

\* C32: a later call of player_action on the tenth floor: "Delver" was
\* unlocked by an earlier call, the floor still meets its target, and the
\* call has not reported it.
C32_StillDeepUnreported ==
    /\ calls >= 2 /\ action.type \in ResolveTypes
    /\ IsSome(world.world) /\ Unwrap(world.world).floor >= 5
    /\ "reach_floor_5" \in UnlockedIds(world.db)
    /\ world.db.achievements["reach_floor_5"].progress = 10
    /\ "Delver" \notin ReportedNames(result.ev)

\* a step that is one call of commands::player_action
IsPlayerActionCall == calls' = calls + 1 /\ action'.type \in ResolveTypes
Finished(app) == IsSome(app.world) /\ Unwrap(app.world).game_over

\* C38: a call of player_action on a world whose game is already over adds
\* no row to the run history and none to the high scores.
C38_AsClaimed ==
    [][(IsPlayerActionCall /\ Finished(world))
          => /\ world'.db.runs = world.db.runs
             /\ world'.db.high_scores = world.db.high_scores]_vars

\* C38: a call of player_action on a finished world has left the world as it
\* was and the run history with two equal rows for the one run.
C38_RunRecordedTwice ==
    /\ calls = 2 /\ action.type \in ResolveTypes
    /\ Finished(world)
    /\ Len(result.ev) = 0
    /\ Len(world.db.runs) = 2
    /\ world.db.runs[1] = world.db.runs[2]
    /\ Len(world.db.high_scores) = 2
    /\ world.db.runs[2].turns_taken = Unwrap(world.world).turn

\* C39: no save of a finished game: the call of player_action that ends the
\* game leaves the save slot empty; while the finished world is the one in
\* the AppState no command stores it, and save_game fails with its error and
\* leaves the database alone; the save slot never holds a world whose game
\* is over.
C39_NoSaveOfFinishedGame ==
    [][/\ (IsPlayerActionCall /\ ~Finished(world) /\ Finished(world'))
            => world'.db.save_state = None
       /\ Finished(world) => world'.db.save_state # world.world
       /\ (Finished(world) /\ action'.type = "save_game")
            => /\ result'.err = "Cannot save a finished game"
               /\ world'.db = world.db
       /\ IsSome(world'.db.save_state) => ~Unwrap(world'.db.save_state).game_over]_vars

\* C39: save_game refused on a finished world whose run is recorded and
\* whose save, there when the session began, is gone.
C39_SaveRefused ==
    /\ action.type = "save_game"
    /\ Finished(world)
    /\ result = [ev |-> <<>>, go |-> None, err |-> "Cannot save a finished game"]
    /\ world.db.save_state = None
    /\ Len(world.db.runs) = 1

\* C40: lock order: no thread takes the world mutex while it owns the db
\* mutex (every command takes world before db, or one mutex at a time), and
\* in no interleaving of concurrent commands are the threads stuck: whenever
\* some thread is inside a command, some thread can take its next step.
C40_NoDeadlock ==
    /\ []((\E t \in LockThreads : ~Idle(world, t))
            => \E t \in LockThreads : CanStep(world, t))
    /\ [][\A t \in LockThreads :
            (world'.world_lock = t /\ world.world_lock # t) => world.db_lock # t]_vars

\* C40: thread 1 inside player_action owns both mutexes while thread 2, in
\* load_game, is blocked on the db mutex and still has the world mutex to
\* take afterwards.
C40_LoadWaitsForPlayerAction ==
    /\ world.world_lock = 1 /\ world.db_lock = 1
    /\ Len(world.todo[1]) = 4
    /\ world.todo[2] = <<"db.lock", "db.unlock", "world.lock", "world.unlock">>
    /\ ~CanStep(world, 2)

\* C33: at the end of every resolve_turn no living boss is in Phase1 with
\* its hit points below half of its maximum, whatever dealt the damage.
C33_AsClaimed ==
    [][IsCall =>
         \A k \in 1..Len(world'.entities) :
            ~(/\ boss_phase_flips(world'.entities[k])
              /\ Unwrap(world'.entities[k].health).current > 0)]_vars

\* C33: the Wand of Ice has just taken the Goblin King from 40 to 32 of its
\* 80 hit points; the turn is over and the boss, alive, is still in Phase1.
C33_ZappedBossStillPhase1 ==
    /\ AfterCall
    /\ action.type = "UseItem"
    /\ HasEvent(result.ev, "DamageTaken", BossId)
    /\ has_entity(world, BossId)
    /\ entity_of(world, BossId).ai = Some("BossPhase1")
    /\ entity_of(world, BossId).health = Some([current |-> 32, max |-> 80])

\* C35: at the end of every resolve_turn no entity other than the player is
\* left in the entity list with hit points at or below zero.
C35_AsClaimed ==
    [][IsCall =>
         \A k \in 1..Len(world'.entities) :
            (world'.entities[k].id # PLAYER_ID /\ IsSome(world'.entities[k].health))
               => Unwrap(world'.entities[k].health).current > 0]_vars

\* C37: in every state player_xp is below the threshold of the current
\* level, player_level * 150.
C37_AsClaimed == world.player_xp < world.player_level * 150

\* C37: the first-level player with 145 XP has killed the Goblin King of
\* floor 30 (320 XP): one level gained, and the XP left, 315, is past the
\* threshold of the second level, 300.
C37_XpPastThreshold ==
    /\ AfterCall
    /\ HasEvent(result.ev, "BossDefeated", BossId)
    /\ world.floor = EndlessFloor
    /\ world.player_level = 2
    /\ world.player_xp = Carried.xp + 320 - 150
    /\ world.player_xp >= world.player_level * 150

\* C35: the Wand of Fire left the Goblin King burning with 2 hit points; the
\* tick of the same turn took 3: the turn is over and the boss is in the
\* entity list with its hit points below zero, no kill counted and no XP
\* granted.
C35_BurnedToDeathAndStillThere ==
    /\ AfterCall
    /\ action.type = "UseItem"
    /\ has_entity(world, BossId)
    /\ Unwrap(entity_of(world, BossId).health).current = -1
    /\ world.enemies_killed = Carried.kills
    /\ world.player_xp = Carried.xp
    /\ ~world.game_over

\* C36: Victory and PlayerDied never occur in the result of one call of
\* resolve_turn: after the blow that kills the boss of floor 10 nothing
\* acts or ticks that could kill the player.
C36_AsClaimed ==
    [][IsCall =>
         ~(/\ \E k \in 1..Len(result'.ev) : result'.ev[k].type = "Victory"
           /\ \E k \in 1..Len(result'.ev) : result'.ev[k].type = "PlayerDied")]_vars

\* C36: in one result the kill of The Lich, Victory, then the Poison tick on
\* the player (DamageTaken after Victory) and PlayerDied.
C36_TickAfterVictory ==
    /\ AfterCall
    /\ world.floor = 10
    /\ \E i, j, k \in 1..Len(result.ev) :
          /\ i < j /\ j < k
          /\ result.ev[i].type = "Victory"
          /\ result.ev[j].type = "DamageTaken" /\ result.ev[j].entity_id = PLAYER_ID
          /\ result.ev[k].type = "PlayerDied"
    /\ world.turn = Carried.turn + 1
    /\ ~has_entity(world, BossId)

\* C34: in every state no two distinct entities that block movement are on
\* the same tile.
C34_AsClaimed ==
    \A i, j \in 1..Len(world.entities) :
       (/\ i # j
        /\ world.entities[i].blocks_movement
        /\ world.entities[j].blocks_movement)
          => world.entities[i].position # world.entities[j].position

\* C34: the player has come down the stairs into a cave; a Mimic of the new
\* floor was spawned on the centre of the start room, under the player.
C34_SpawnedOnThePlayer ==
    /\ action.type = "UseStairs"
    /\ world.floor = CaveFloor
    /\ world.entities[1].id = PLAYER_ID
    /\ \E k \in 2..Len(world.entities) :
          /\ world.entities[k].name = "Mimic"
          /\ world.entities[k].blocks_movement
          /\ world.entities[k].position = world.entities[1].position
    /\ \E k \in 1..Len(world.map.rooms) :
          /\ world.map.rooms[k].room_type = "Start"
          /\ center(world.map.rooms[k]) = world.entities[1].position

====
